---- MODULE Spec2Model ----
(***************************************************************************)
(* State-machine model of two CasADi components:                           *)
(*   - NlpSolverInternal (casadi/core/function/nlp_solver_internal.cpp):   *)
(*     init, the lazily cached derivative functions and the bounds checks; *)
(*   - FlatOCPInternal (optimal_control/flat_ocp_internal.cpp): parsing    *)
(*     into equation sets and elimination of the dependent variables.      *)
(* Each component has its own specification (SpecDeriv, SpecBounds,        *)
(* SpecOcp); the variables of the other component stay at their initial    *)
(* value.                                                                  *)
(***************************************************************************)
EXTENDS Integers, Sequences, FiniteSets, TLC

(***************************************************************************)
(* Bounds of the model                                                     *)
(***************************************************************************)
\* largest number of decision variables of the NLP
MaxNx == 2
\* largest number of constraints of the NLP
MaxNg == 1
\* largest number of input entries that differ from the values set by init
MaxEdits == 2
\* largest number of derivative options that are set
MaxOverrides == 1
\* largest number of accessor calls on one solver object
MaxCalls == 3
\* largest number of binding equations of a document
MaxBindings == 2
\* largest number of passes called on one parsed model
MaxPasses == 3

(***************************************************************************)
(* Program constants (enumerators of the NLP schemes)                      *)
(***************************************************************************)
NL_X == 0
NL_NUM_IN == 2
NL_NUM_OUT == 2
GRADF_NUM_IN == 2
GRADF_NUM_OUT == 3
JACG_NUM_IN == 2
JACG_NUM_OUT == 3
HESSLAG_NUM_IN == 4
HESSLAG_NUM_OUT == 5

VARIABLES
  \* ---- NlpSolverInternal ----
  nlp_,                 \* the NLP function: [nin, nout, nx, np, ng]
  nlpPhase,             \* "constructed", "initialized" or "init_failed"
  options,              \* derivative options: option name -> Function (null: not set)
  warn_initial_bounds,  \* option warn_initial_bounds
  nx_, np_, ng_,        \* dimensions read by init
  input_, output_,      \* input and output buffers (empty before init)
  gradF_, jacF_, jacG_, gradLag_, hessLag_, spHessLag_,   \* the six cache slots
  recipeRuns,           \* per kind: how often the default recipe was started
  validations,          \* per kind: how often the arity validation was run
  buildCount,           \* per kind: how often a freshly obtained function was cached
  calls,                \* number of accessor calls made
  lastAccess,           \* the last accessor call: kind, outcome, whether a repeat
  returned,             \* per kind: whether an access has returned, and what
  lastCheck,            \* outcome of the last bounds check on the current inputs
  \* ---- FlatOCPInternal ----
  document_,            \* the parsed XML document the object was constructed with
  ocp,                  \* the members of the object: registry, variable lists, equation sets
  ocpPhase,             \* "constructed", "parsed" or "parse_failed"
  passes,               \* the calls of passes made after parse, with their outcome
  locals                \* local variables of the last pass called: the evaluated
                        \* Jacobian of scaleEquations, the decomposition of sortBLT

nlpVars == <<nlp_, nlpPhase, options, warn_initial_bounds, nx_, np_, ng_,
             input_, output_, gradF_, jacF_, jacG_, gradLag_, hessLag_,
             spHessLag_, recipeRuns, validations, buildCount, calls,
             lastAccess, returned, lastCheck>>

ocpVars == <<document_, ocp, ocpPhase, passes, locals>>

vars == <<nlpVars, ocpVars>>

(***************************************************************************)
(* IEEE doubles: finite values, the two infinities and NaN.  Every         *)
(* comparison with NaN is false.                                           *)
(***************************************************************************)
Fin(n) == [cls |-> "fin", v |-> n]
PInf == [cls |-> "inf", v |-> 1]
NInf == [cls |-> "inf", v |-> -1]
NaN == [cls |-> "nan", v |-> 0]
Doubles == {NInf, Fin(0), Fin(1), PInf, NaN}

Ord(a) == IF a.cls = "inf" THEN a.v * 1000 ELSE a.v
DLt(a, b) == a.cls # "nan" /\ b.cls # "nan" /\ Ord(a) < Ord(b)
DGt(a, b) == DLt(b, a)
DEq(a, b) == a.cls # "nan" /\ b.cls # "nan" /\ a = b
DLe(a, b) == DLt(a, b) \/ DEq(a, b)

Const(n, d) == [i \in 1..n |-> d]

(***************************************************************************)
(* Functions (reference-counted handles).  id is the identity of the node. *)
(***************************************************************************)
NullFunction == [id |-> <<"null", 0>>, nin |-> 0, nout |-> 0]
NullSparsity == [id |-> <<"null sparsity", 0>>, nin |-> 0, nout |-> 0]
isNull(f) == f.id[2] = 0

UserFn(n, i, o) == [id |-> <<"user", n>>, nin |-> i, nout |-> o]
UserFunctions == {UserFn(1, 2, 3), UserFn(2, 4, 5), UserFn(3, 4, 4), UserFn(4, 2, 5)}

NlpFunctions ==
  {[nin |-> i, nout |-> o, nx |-> x, np |-> 1, ng |-> g] :
     i \in 1..3, o \in 1..3, x \in 0..MaxNx, g \in 0..MaxNg}

\* Function::gradient(iind, oind): the gradient, then the outputs of f
gradient(f, serial) ==
  [id |-> <<"gradient", serial>>, nin |-> f.nin, nout |-> 1 + f.nout]

\* Function::jacobian(iind, oind): the Jacobian, then the outputs of f
jacobian(f, serial) ==
  [id |-> <<"jacobian", serial>>, nin |-> f.nin, nout |-> 1 + f.nout]

\* jacobian and jacSparsity need input iind and output oind to exist
hasBlock(f, iind, oind) == iind < f.nin /\ oind < f.nout

\* Function::derivative(nfwd, nadj): inputs plus seeds, outputs plus sensitivities
derivative(f, nfwd, nadj, serial) ==
  [id |-> <<"derivative", serial>>,
   nin |-> f.nin * (1 + nfwd) + f.nout * nadj,
   nout |-> f.nout * (1 + nfwd) + f.nin * nadj]

\* Function::jacSparsity(iind, oind)
jacSparsity(f, serial) ==
  [id |-> <<"jacSparsity", serial>>, nin |-> 0, nout |-> 0]

Kinds == {"gradF", "jacF", "jacG", "gradLag", "hessLag", "spHessLag"}
OptionNames == {"grad_f", "jac_f", "jac_g", "grad_lag", "hess_lag"}

hasSetOption(name) == ~isNull(options[name])
getOption(name) == options[name]


(***************************************************************************)
(* Construction and init                                                   *)
(***************************************************************************)
Empty == [n \in {} |-> <<>>]
NoAccess == [kind |-> "none", status |-> "none", value |-> NullFunction, again |-> FALSE]
NoCheck == [op |-> "none", status |-> "none", msg |-> "", index |-> <<>>, warned |-> FALSE]

\* A document without any variable, equation or optimization section.
NoDocument ==
  [ModelVariables |-> <<>>, BindingEquations |-> <<>>, DynamicEquations |-> <<>>,
   InitialEquations |-> <<>>, Optimization |-> <<>>]

\* The members of a FlatOCPInternal after construction.
NoMembers ==
  [varmap_ |-> Empty,
   x_ |-> <<>>, xd_ |-> <<>>, xa_ |-> <<>>, q_ |-> <<>>, y_ |-> <<>>,
   u_ |-> <<>>, p_ |-> <<>>,
   dae_ |-> <<>>, ode_ |-> <<>>, alg_ |-> <<>>, quad_ |-> <<>>, dep_ |-> <<>>,
   initial_ |-> <<>>, path_ |-> <<>>, path_min_ |-> <<>>, path_max_ |-> <<>>,
   mterm_ |-> <<>>, lterm_ |-> <<>>,
   scaled_variables_ |-> FALSE, scaled_equations_ |-> FALSE,
   t0_ |-> NaN, tf_ |-> NaN,
   der_ |-> {},
   dictionary_ |-> [scale_variables |-> FALSE, eliminate_dependent |-> TRUE,
                    scale_equations |-> TRUE],
   thrown |-> ""]

\* State after FlatOCPInternal::FlatOCPInternal(document): nothing is read yet.
\* The locals of a pass that evaluates no Jacobian and decomposes nothing.
NoLocals ==
  [evaluated |-> FALSE, J0 |-> <<>>, with_x |-> FALSE, rowperm |-> <<>>,
   colperm |-> <<>>, rowblock |-> <<>>, colblock |-> <<>>, nb |-> 0,
   name |-> <<"", 0>>,
   v |-> [variability |-> "", causality |-> "", nominal |-> 0, free |-> FALSE]]

FlatOCPConstructed(doc) ==
  /\ document_ = doc
  /\ ocp = NoMembers
  /\ ocpPhase = "constructed"
  /\ passes = <<>>
  /\ locals = NoLocals

\* State after NlpSolverInternal::NlpSolverInternal(nlp): no derivative option
\* is set, warn_initial_bounds is false, every cache slot is null.
Constructed(f) ==
  /\ nlp_ = f
  /\ nlpPhase = "constructed"
  /\ options = [o \in OptionNames |-> NullFunction]
  /\ warn_initial_bounds = FALSE
  /\ nx_ = 0 /\ np_ = 0 /\ ng_ = 0
  /\ input_ = Empty /\ output_ = Empty
  /\ gradF_ = NullFunction /\ jacF_ = NullFunction /\ jacG_ = NullFunction
  /\ gradLag_ = NullFunction /\ hessLag_ = NullFunction
  /\ spHessLag_ = NullSparsity
  /\ recipeRuns = [k \in Kinds |-> 0]
  /\ validations = [k \in Kinds |-> 0]
  /\ buildCount = [k \in Kinds |-> 0]
  /\ calls = 0
  /\ lastAccess = NoAccess
  /\ returned = [k \in Kinds |-> [has |-> FALSE, value |-> NullFunction]]
  /\ lastCheck = NoCheck

slotVars == <<gradF_, jacF_, jacG_, gradLag_, hessLag_, spHessLag_>>
accessVars == <<recipeRuns, validations, buildCount, calls, lastAccess, returned>>
initVars == <<nlpPhase, nx_, np_, ng_, input_, output_>>

\* The user sets a derivative option before init (setOption on a declared option).
SetOption(name, f) ==
  /\ nlpPhase = "constructed"
  /\ Cardinality({o \in OptionNames : hasSetOption(o)} \cup {name}) <= MaxOverrides
  /\ options' = [options EXCEPT ![name] = f]
  /\ UNCHANGED <<nlp_, warn_initial_bounds, initVars, slotVars, accessVars, lastCheck>>
  /\ UNCHANGED ocpVars

\* The user sets the option warn_initial_bounds.
SetWarnInitialBounds(b) ==
  /\ warn_initial_bounds' = b
  /\ lastCheck' = NoCheck
  /\ UNCHANGED <<nlp_, options, initVars, slotVars, accessVars>>
  /\ UNCHANGED ocpVars

\* Faulty variant of nlpArityOk: only the number of inputs is asserted.
nlpArityOkInputsOnly(f) == f.nin = NL_NUM_IN

\* The two assertions of init on the NLP function.
nlpArityOk(f) == f.nin = NL_NUM_IN /\ f.nout = NL_NUM_OUT

allocatedInput(nx, np, ng) ==
  [X0 |-> Const(nx, Fin(0)), LBX |-> Const(nx, NInf), UBX |-> Const(nx, PInf),
   LBG |-> Const(ng, NInf), UBG |-> Const(ng, PInf),
   LAM_X0 |-> Const(nx, Fin(0)), LAM_G0 |-> Const(ng, Fin(0)),
   P |-> Const(np, Fin(0))]

allocatedOutput(nx, np, ng) ==
  [X |-> Const(nx, Fin(0)), F |-> Const(1, Fin(0)), LAM_X |-> Const(nx, Fin(0)),
   LAM_G |-> Const(ng, Fin(0)), LAM_P |-> Const(np, Fin(0)),
   G |-> Const(ng, Fin(0))]

\* NlpSolverInternal::init
NlpSolverInit ==
  /\ nlpPhase = "constructed"
  /\ IF ~nlpArityOk(nlp_)
     THEN /\ nlpPhase' = "init_failed"
          /\ UNCHANGED <<nx_, np_, ng_, input_, output_>>
     ELSE /\ nlpPhase' = "initialized"
          /\ nx_' = nlp_.nx /\ np_' = nlp_.np /\ ng_' = nlp_.ng
          /\ input_' = allocatedInput(nlp_.nx, nlp_.np, nlp_.ng)
          /\ output_' = allocatedOutput(nlp_.nx, nlp_.np, nlp_.ng)
  /\ UNCHANGED <<nlp_, options, warn_initial_bounds, slotVars, accessVars, lastCheck>>
  /\ UNCHANGED ocpVars

(***************************************************************************)
(* Derivative accessors.  An outcome records what one call did:            *)
(*   status, value : returned normally with value, or threw                *)
(*   slot          : the accessor's own slot after the call                *)
(*   gradLag       : gradLag_ after the call                               *)
(*   lagRet        : a nested call of gradLag() returned normally          *)
(*   ran, checked  : kinds whose default recipe was started / whose arity   *)
(*                   validation was run                                    *)
(*   built         : kinds whose slot was filled by this call              *)
(***************************************************************************)
Got(f, ran, checked) ==
  [status |-> "ok", value |-> f, slot |-> f, gradLag |-> gradLag_,
   lagRet |-> FALSE, ran |-> ran, checked |-> checked, built |-> {}]

Thrown(ran, checked) ==
  [status |-> "error", value |-> NullFunction, slot |-> NullFunction,
   gradLag |-> gradLag_, lagRet |-> FALSE, ran |-> ran, checked |-> checked,
   built |-> {}]

\* The pair of casadi_assert_message on nIn() and nOut() of a candidate.
arityOk(f, nin, nout) == f.nin = nin /\ f.nout = nout

validated(cand, ran, kind, nin, nout) ==
  IF arityOk(cand, nin, nout) THEN Got(cand, ran, {kind}) ELSE Thrown(ran, {kind})

\* Faulty variant of memo: a build that fails leaves an unvalidated function
\* built from nlp_ in the slot.
memoKeepingPartial(slot, g, kind) ==
  IF isNull(slot)
  THEN IF g.status = "ok"
       THEN [g EXCEPT !.slot = g.value,
                      !.built = g.built \cup (IF isNull(g.value) THEN {} ELSE {kind})]
       ELSE [g EXCEPT !.slot = jacobian(nlp_, 1)]
  ELSE [Got(slot, {}, {}) EXCEPT !.slot = slot]

\* Faulty variant of memo: the isNull test is missing, every access rebuilds.
memoNoNullTest(slot, g, kind) ==
  IF g.status = "ok"
  THEN [g EXCEPT !.slot = g.value,
                 !.built = g.built \cup (IF isNull(g.value) THEN {} ELSE {kind})]
  ELSE [g EXCEPT !.slot = slot]

\* "if (slot.isNull()) slot = get(); return slot;"
memo(slot, g, kind) ==
  IF isNull(slot)
  THEN IF g.status = "ok"
       THEN [g EXCEPT !.slot = g.value,
                      !.built = g.built \cup (IF isNull(g.value) THEN {} ELSE {kind})]
       ELSE [g EXCEPT !.slot = slot]
  ELSE [Got(slot, {}, {}) EXCEPT !.slot = slot]

\* NlpSolverInternal::getGradF; derivOk: nlp_.gradient does not throw
getGradF(derivOk) ==
  IF hasSetOption("grad_f")
  THEN validated(getOption("grad_f"), {}, "gradF", GRADF_NUM_IN, GRADF_NUM_OUT)
  ELSE IF ~derivOk \/ ~hasBlock(nlp_, NL_X, 0) THEN Thrown({"gradF"}, {})
  ELSE validated(gradient(nlp_, recipeRuns["gradF"] + 1), {"gradF"}, "gradF",
                 GRADF_NUM_IN, GRADF_NUM_OUT)

\* Faulty variant of getJacF: the option jac_f is not consulted.
getJacFNoOverride(derivOk) ==
  IF ~derivOk \/ ~hasBlock(nlp_, NL_X, 0) THEN Thrown({"jacF"}, {})
  ELSE validated(jacobian(nlp_, recipeRuns["jacF"] + 1), {"jacF"}, "jacF",
                 GRADF_NUM_IN, GRADF_NUM_OUT)

\* NlpSolverInternal::getJacF
getJacF(derivOk) ==
  IF hasSetOption("jac_f")
  THEN validated(getOption("jac_f"), {}, "jacF", GRADF_NUM_IN, GRADF_NUM_OUT)
  ELSE IF ~derivOk \/ ~hasBlock(nlp_, NL_X, 0) THEN Thrown({"jacF"}, {})
  ELSE validated(jacobian(nlp_, recipeRuns["jacF"] + 1), {"jacF"}, "jacF",
                 GRADF_NUM_IN, GRADF_NUM_OUT)

\* NlpSolverInternal::getJacG
getJacG(derivOk) ==
  IF ng_ = 0 THEN Got(NullFunction, {}, {})
  ELSE IF hasSetOption("jac_g")
  THEN validated(getOption("jac_g"), {}, "jacG", JACG_NUM_IN, JACG_NUM_OUT)
  ELSE IF ~derivOk \/ ~hasBlock(nlp_, NL_X, 1) THEN Thrown({"jacG"}, {})
  ELSE validated(jacobian(nlp_, recipeRuns["jacG"] + 1), {"jacG"}, "jacG",
                 JACG_NUM_IN, JACG_NUM_OUT)

\* NlpSolverInternal::getGradLag (no arity assertion in the source)
getGradLag(derivOk) ==
  IF hasSetOption("grad_lag")
  THEN Got(getOption("grad_lag"), {}, {})
  ELSE IF ~derivOk THEN Thrown({"gradLag"}, {})
  ELSE Got(derivative(nlp_, 0, 1, recipeRuns["gradLag"] + 1), {"gradLag"}, {})

\* NlpSolverInternal::gradF, jacF, jacG
gradF(derivOk) == memo(gradF_, getGradF(derivOk), "gradF")
jacF(derivOk) == memo(jacF_, getJacF(derivOk), "jacF")
jacG(derivOk) == memo(jacG_, getJacG(derivOk), "jacG")

\* NlpSolverInternal::gradLag
gradLag(derivOk) ==
  LET m == memo(gradLag_, getGradLag(derivOk), "gradLag")
  IN [m EXCEPT !.gradLag = m.slot, !.lagRet = (m.status = "ok")]

\* NlpSolverInternal::getHessLag; the default recipe starts with this->gradLag()
getHessLag(lagOk, derivOk) ==
  IF hasSetOption("hess_lag")
  THEN validated(getOption("hess_lag"), {}, "hessLag", HESSLAG_NUM_IN, HESSLAG_NUM_OUT)
  ELSE LET g == gradLag(lagOk)
           started == [g EXCEPT !.ran = g.ran \cup {"hessLag"}]
           failed == [started EXCEPT !.status = "error", !.value = NullFunction]
           h == jacobian(g.value, recipeRuns["hessLag"] + 1)
       IN IF g.status = "error" THEN failed
          ELSE IF ~derivOk \/ ~hasBlock(g.value, NL_X, NL_NUM_OUT + NL_X) THEN failed
          ELSE IF arityOk(h, HESSLAG_NUM_IN, HESSLAG_NUM_OUT)
               THEN [started EXCEPT !.value = h,
                                    !.checked = g.checked \cup {"hessLag"}]
               ELSE [failed EXCEPT !.checked = g.checked \cup {"hessLag"}]

\* NlpSolverInternal::hessLag
hessLag(lagOk, derivOk) == memo(hessLag_, getHessLag(lagOk, derivOk), "hessLag")

\* NlpSolverInternal::getSpHessLag
getSpHessLag(lagOk, derivOk) ==
  LET g == gradLag(lagOk)
      started == [g EXCEPT !.ran = g.ran \cup {"spHessLag"}]
      failed == [started EXCEPT !.status = "error", !.value = NullFunction]
  IN IF g.status = "error" THEN failed
     ELSE IF ~derivOk \/ ~hasBlock(g.value, NL_X, NL_NUM_OUT + NL_X) THEN failed
     ELSE [started EXCEPT !.value = jacSparsity(g.value, recipeRuns["spHessLag"] + 1)]

\* NlpSolverInternal::spHessLag
spHessLag(lagOk, derivOk) ==
  memo(spHessLag_, getSpHessLag(lagOk, derivOk), "spHessLag")

\* Derived solvers call the accessors after NlpSolverInternal::init.
CanCall == nlpPhase = "initialized" /\ calls < MaxCalls

Count(c, ks) == [k \in Kinds |-> c[k] + (IF k \in ks THEN 1 ELSE 0)]

Observe(kind, r) ==
  /\ recipeRuns' = Count(recipeRuns, r.ran)
  /\ validations' = Count(validations, r.checked)
  /\ buildCount' = Count(buildCount, r.built)
  /\ calls' = calls + 1
  /\ lastAccess' = [kind |-> kind, status |-> r.status, value |-> r.value,
                    again |-> returned[kind].has]
  /\ returned' = [k \in Kinds |->
       IF k = kind /\ r.status = "ok" THEN [has |-> TRUE, value |-> r.value]
       ELSE IF k = "gradLag" /\ r.lagRet THEN [has |-> TRUE, value |-> r.gradLag]
       ELSE returned[k]]
  /\ UNCHANGED <<nlp_, options, warn_initial_bounds, initVars, lastCheck>>
  /\ UNCHANGED ocpVars

GradF ==
  \E derivOk \in BOOLEAN :
    /\ CanCall
    /\ LET r == gradF(derivOk)
       IN /\ gradF_' = r.slot
          /\ UNCHANGED <<jacF_, jacG_, gradLag_, hessLag_, spHessLag_>>
          /\ Observe("gradF", r)

\* Faulty variant of JacF: the result is stored in the slot of gradF.
JacFWrongSlot ==
  \E derivOk \in BOOLEAN :
    /\ CanCall
    /\ LET r == jacF(derivOk)
       IN /\ gradF_' = r.slot
          /\ UNCHANGED <<jacF_, jacG_, gradLag_, hessLag_, spHessLag_>>
          /\ Observe("jacF", r)

JacF ==
  \E derivOk \in BOOLEAN :
    /\ CanCall
    /\ LET r == jacF(derivOk)
       IN /\ jacF_' = r.slot
          /\ UNCHANGED <<gradF_, jacG_, gradLag_, hessLag_, spHessLag_>>
          /\ Observe("jacF", r)

JacG ==
  \E derivOk \in BOOLEAN :
    /\ CanCall
    /\ LET r == jacG(derivOk)
       IN /\ jacG_' = r.slot
          /\ UNCHANGED <<gradF_, jacF_, gradLag_, hessLag_, spHessLag_>>
          /\ Observe("jacG", r)

GradLag ==
  \E derivOk \in BOOLEAN :
    /\ CanCall
    /\ LET r == gradLag(derivOk)
       IN /\ gradLag_' = r.slot
          /\ UNCHANGED <<gradF_, jacF_, jacG_, hessLag_, spHessLag_>>
          /\ Observe("gradLag", r)

HessLag ==
  \E lagOk, derivOk \in BOOLEAN :
    /\ CanCall
    /\ LET r == hessLag(lagOk, derivOk)
       IN /\ hessLag_' = r.slot
          /\ gradLag_' = r.gradLag
          /\ UNCHANGED <<gradF_, jacF_, jacG_, spHessLag_>>
          /\ Observe("hessLag", r)

SpHessLag ==
  \E lagOk, derivOk \in BOOLEAN :
    /\ CanCall
    /\ LET r == spHessLag(lagOk, derivOk)
       IN /\ spHessLag_' = r.slot
          /\ gradLag_' = r.gradLag
          /\ UNCHANGED <<gradF_, jacF_, jacG_, hessLag_>>
          /\ Observe("spHessLag", r)

InitDeriv ==
  /\ \E f \in NlpFunctions : f.nx = MaxNx /\ f.ng \in {0, MaxNg} /\ Constructed(f)
  /\ FlatOCPConstructed(NoDocument)

NextDeriv ==
  \/ \E name \in OptionNames, f \in UserFunctions : SetOption(name, f)
  \/ NlpSolverInit
  \/ GradF
  \/ JacF
  \/ JacG
  \/ GradLag
  \/ HessLag
  \/ SpHessLag

SpecDeriv == InitDeriv /\ [][NextDeriv]_vars


(***************************************************************************)
(* Properties of the derivative accessors (checked under SpecDeriv)         *)
(***************************************************************************)
Slot(k) ==
  CASE k = "gradF" -> gradF_
    [] k = "jacF" -> jacF_
    [] k = "jacG" -> jacG_
    [] k = "gradLag" -> gradLag_
    [] k = "hessLag" -> hessLag_
    [] k = "spHessLag" -> spHessLag_

OptionOf(k) ==
  CASE k = "gradF" -> "grad_f"
    [] k = "jacF" -> "jac_f"
    [] k = "jacG" -> "jac_g"
    [] k = "gradLag" -> "grad_lag"
    [] k = "hessLag" -> "hess_lag"

OverrideKinds == {"gradF", "jacF", "jacG", "gradLag", "hessLag"}

\* The step is a call of the accessor of kind k.
Accessed(k) == calls' # calls /\ lastAccess'.kind = k

\* C1: once an access to a kind has returned, no later step runs the recipe
\* or the arity validation of that kind again or caches another function for
\* it, every later access to the kind returns normally with the object that
\* was returned before, and at most one build per kind is ever cached.
C1_Memoized ==
  /\ [](\A k \in Kinds : buildCount[k] <= 1)
  /\ [][\A k \in Kinds : returned[k].has =>
          /\ recipeRuns'[k] = recipeRuns[k]
          /\ validations'[k] = validations[k]
          /\ buildCount'[k] = buildCount[k]
          /\ returned'[k] = returned[k]
          /\ Slot(k)' = Slot(k)
          /\ (Accessed(k) => /\ lastAccess'.status = "ok"
                             /\ lastAccess'.value = returned[k].value)]_vars

\* C1 witness: gradF was accessed again after it had returned, with an access
\* to jacF among the three calls, and it was built once.
C1_Witness ==
  /\ calls = 3
  /\ lastAccess.kind = "gradF" /\ lastAccess.again /\ lastAccess.status = "ok"
  /\ returned["jacF"].has
  /\ recipeRuns["gradF"] = 1 /\ validations["gradF"] = 1 /\ buildCount["gradF"] = 1

\* C2 (as claimed): a function whose arity differs from the expected arity of
\* its kind is never stored in the slot of gradF, jacF, jacG, gradLag or
\* hessLag, nor returned by the accessor.
C2_WrongArityNeverCached ==
  LET expected(k) == CASE k \in {"gradF", "jacF", "jacG"} -> <<2, 3>>
                       [] k = "gradLag" -> <<4, 4>>
                       [] k = "hessLag" -> <<4, 5>>
      fits(f, k) == isNull(f) \/ <<f.nin, f.nout>> = expected(k)
  IN \A k \in OverrideKinds :
       /\ fits(Slot(k), k)
       /\ (lastAccess.kind = k /\ lastAccess.status = "ok" => fits(lastAccess.value, k))

\* C3 (as claimed): on an access to a kind whose slot is unset, a set override
\* is returned and the default recipe is not run; without override the
\* default recipe is run; for every number of constraints.
C3_OverrideOrRecipe ==
  [][\A k \in OverrideKinds : Accessed(k) /\ isNull(Slot(k)) =>
       IF hasSetOption(OptionOf(k))
       THEN /\ recipeRuns'[k] = recipeRuns[k]
            /\ (lastAccess'.status = "ok" => lastAccess'.value = getOption(OptionOf(k)))
       ELSE recipeRuns'[k] = recipeRuns[k] + 1]_vars

\* C3 (amended): as C3, except that an access to jacG on an NLP without
\* constraints (ng_ = 0) returns a null function, and neither uses the
\* override nor runs the recipe or the validation.
C3_OverrideOrRecipeUnlessNoConstraints ==
  [][\A k \in OverrideKinds : Accessed(k) /\ isNull(Slot(k)) =>
       IF k = "jacG" /\ ng_ = 0
       THEN /\ lastAccess'.status = "ok" /\ isNull(lastAccess'.value)
            /\ recipeRuns'[k] = recipeRuns[k]
            /\ validations'[k] = validations[k]
       ELSE IF hasSetOption(OptionOf(k))
       THEN /\ recipeRuns'[k] = recipeRuns[k]
            /\ (lastAccess'.status = "ok" => lastAccess'.value = getOption(OptionOf(k)))
       ELSE recipeRuns'[k] = recipeRuns[k] + 1]_vars

\* C3 witness: jacG returned a null function although jac_g is set (ng_ = 0).
C3_Witness ==
  /\ lastAccess.kind = "jacG" /\ lastAccess.status = "ok"
  /\ ng_ = 0 /\ hasSetOption("jac_g") /\ isNull(lastAccess.value)
  /\ recipeRuns["jacG"] = 0

\* C4 (as claimed): an access to one kind leaves the slots of the other five
\* kinds as they were.
C4_OtherSlotsUntouched ==
  [][\A k \in Kinds : Accessed(k) =>
       \A j \in Kinds \ {k} : Slot(j)' = Slot(j)]_vars

\* C4 (amended): an access to one kind changes no slot but its own (which it
\* fills with what it returns), except that an access to spHessLag, or to
\* hessLag without the option hess_lag, whose slot is unset also fills the
\* slot of gradLag when that is unset.
C4_OtherSlotsUntouchedButGradLag ==
  [][\A k \in Kinds : Accessed(k) =>
       /\ Slot(k)' = (IF lastAccess'.status = "ok" THEN lastAccess'.value ELSE Slot(k))
       /\ \A j \in Kinds \ {k} :
            \/ Slot(j)' = Slot(j)
            \/ /\ j = "gradLag" /\ isNull(gradLag_) /\ isNull(Slot(k))
               /\ k = "spHessLag" \/ (k = "hessLag" /\ ~hasSetOption("hess_lag"))]_vars

\* C4 witness: after a first access to spHessLag the slots of spHessLag and
\* gradLag are filled and the other four are unset.
C4_Witness ==
  /\ calls = 1 /\ lastAccess.kind = "spHessLag" /\ lastAccess.status = "ok"
  /\ ~isNull(spHessLag_) /\ ~isNull(gradLag_)
  /\ isNull(gradF_) /\ isNull(jacF_) /\ isNull(jacG_) /\ isNull(hessLag_)

(***************************************************************************)
(* Bounds checks                                                           *)
(***************************************************************************)
BoundInputs == {"X0", "LBX", "UBX", "LBG", "UBG"}

\* The entries of the five vectors: <<name, i>> with i counted from 1.
Entries(inp) == {e \in BoundInputs \X (1..(MaxNx + MaxNg)) : e[2] <= Len(inp[e[1]])}

\* inp with the entries in DOMAIN val overwritten by val
Written(inp, val) ==
  [n \in DOMAIN inp |->
     [i \in 1..Len(inp[n]) |->
        IF <<n, i>> \in DOMAIN val THEN val[<<n, i>>] ELSE inp[n][i]]]

\* The caller fills the input buffers after init (setInput / input(i)); at
\* most MaxEdits entries get a value other than the one init wrote.
SetInput ==
  /\ nlpPhase = "initialized"
  /\ input_ = allocatedInput(nx_, np_, ng_)
  /\ \E S \in {T \in SUBSET Entries(input_) : Cardinality(T) <= MaxEdits} :
       \E val \in [S -> Doubles] : input_' = Written(input_, val)
  /\ lastCheck' = NoCheck
  /\ UNCHANGED <<nlp_, nlpPhase, options, warn_initial_bounds, nx_, np_, ng_,
                 output_, slotVars, accessVars>>
  /\ UNCHANGED ocpVars

\* Faulty variant of illPosedAt: >= in place of >, so lb = ub is rejected.
illPosedAtGe(lb, ub, i) ==
  DEq(lb[i + 1], PInf) \/ DLe(ub[i + 1], lb[i + 1]) \/ DEq(ub[i + 1], NInf)

\* "lb[i]==inf || lb[i]>ub[i] || ub[i]==-inf" (i counts from 0)
illPosedAt(lb, ub, i) ==
  DEq(lb[i + 1], PInf) \/ DGt(lb[i + 1], ub[i + 1]) \/ DEq(ub[i + 1], NInf)

\* "for (int i=0; !violated && i<n; ++i) violated = ..."
RECURSIVE illPosedLoop(_, _, _, _, _)
illPosedLoop(lb, ub, n, i, violated) ==
  IF ~violated /\ i < n
  THEN illPosedLoop(lb, ub, n, i + 1, illPosedAt(lb, ub, i))
  ELSE violated

\* Faulty variant of outsideAt: only the upper bound is compared.
outsideAtUpperOnly(x0, lb, ub, k) == DGt(x0[k + 1], ub[k + 1])

\* "x0[k]>ubx[k] || x0[k]<lbx[k]"
outsideAt(x0, lb, ub, k) == DGt(x0[k + 1], ub[k + 1]) \/ DLt(x0[k + 1], lb[k + 1])

\* "for (int k=0; !violated && k<nx_; ++k) violated = ..."
RECURSIVE outsideLoop(_, _, _, _, _, _)
outsideLoop(x0, lb, ub, n, k, violated) ==
  IF ~violated /\ k < n
  THEN outsideLoop(x0, lb, ub, n, k + 1, outsideAt(x0, lb, ub, k))
  ELSE violated

CheckOutcome(op, status, msg, index, warned) ==
  [op |-> op, status |-> status, msg |-> msg, index |-> index, warned |-> warned]

\* NlpSolverInternal::checkInitialBounds
checkInitialBounds ==
  LET x0 == input_.X0
      lbx == input_.LBX
      ubx == input_.UBX
      lbg == input_.LBG
      ubg == input_.UBG
      vx == illPosedLoop(lbx, ubx, nx_, 0, FALSE)
      vg == illPosedLoop(lbg, ubg, ng_, 0, vx)
      vw == outsideLoop(x0, lbx, ubx, nx_, 0, vg)
  IN IF vx
     THEN CheckOutcome("checkInitialBounds", "error",
                       "Ill-posed problem detected (x bounds)", <<>>, FALSE)
     ELSE IF vg
     THEN CheckOutcome("checkInitialBounds", "error",
                       "Ill-posed problem detected (g bounds)", <<>>, FALSE)
     ELSE CheckOutcome("checkInitialBounds", "ok", "", <<>>,
                       warn_initial_bounds /\ vw)

\* The assertion loop of checkInputs: the first i with lb[i] <= ub[i] false.
RECURSIVE firstFailed(_, _, _, _)
firstFailed(lb, ub, n, i) ==
  IF i < n
  THEN IF DLe(lb[i + 1], ub[i + 1]) THEN firstFailed(lb, ub, n, i + 1) ELSE <<i>>
  ELSE <<>>

\* NlpSolverInternal::checkInputs
checkInputs ==
  LET fx == firstFailed(input_.LBX, input_.UBX, Len(input_.LBX), 0)
      fg == firstFailed(input_.LBG, input_.UBG, Len(input_.LBG), 0)
  IN IF fx # <<>>
     THEN CheckOutcome("checkInputs", "error", "LBX[i] <= UBX[i] was violated for i=",
                       fx, FALSE)
     ELSE IF fg # <<>>
     THEN CheckOutcome("checkInputs", "error", "LBG[i] <= UBG[i] was violated for i=",
                       fg, FALSE)
     ELSE CheckOutcome("checkInputs", "ok", "", <<>>, FALSE)

CheckInitialBounds ==
  /\ nlpPhase = "initialized"
  /\ lastCheck' = checkInitialBounds
  /\ UNCHANGED <<nlp_, options, warn_initial_bounds, initVars, slotVars, accessVars>>
  /\ UNCHANGED ocpVars

CheckInputs ==
  /\ nlpPhase = "initialized"
  /\ lastCheck' = checkInputs
  /\ UNCHANGED <<nlp_, options, warn_initial_bounds, initVars, slotVars, accessVars>>
  /\ UNCHANGED ocpVars

InitBounds ==
  /\ \E f \in NlpFunctions : Constructed(f)
  /\ FlatOCPConstructed(NoDocument)

NextBounds ==
  \/ NlpSolverInit
  \/ \E b \in BOOLEAN : SetWarnInitialBounds(b)
  \/ SetInput
  \/ CheckInitialBounds
  \/ CheckInputs

SpecBounds == InitBounds /\ [][NextBounds]_vars


(***************************************************************************)
(* Properties of init and of the bounds checks (checked under SpecBounds)   *)
(***************************************************************************)
\* some index violates lb[i] = +inf, ub[i] = -inf or lb[i] > ub[i]
IllPosed(lb, ub) ==
  \E i \in 1..Len(lb) :
    \/ lb[i] = PInf
    \/ ub[i] = NInf
    \/ lb[i].cls # "nan" /\ ub[i].cls # "nan" /\ Ord(lb[i]) > Ord(ub[i])

\* C5: checkInitialBounds raises an error iff the x bounds or the g bounds
\* are ill-posed at some index (so a pair lb = ub of finite values is
\* accepted), and the check changes no input vector.
C5_IllPosedIffError ==
  /\ [](lastCheck.op = "checkInitialBounds" =>
          (lastCheck.status = "error" <=>
             IllPosed(input_.LBX, input_.UBX) \/ IllPosed(input_.LBG, input_.UBG)))
  /\ [][lastCheck'.op = "checkInitialBounds" => input_' = input_]_vars

\* C5 witness: the x bounds pass and the error is raised for a finite pair
\* lbg > ubg of the constraint bounds.
C5_Witness ==
  /\ lastCheck.op = "checkInitialBounds" /\ lastCheck.status = "error"
  /\ ~IllPosed(input_.LBX, input_.UBX)
  /\ Len(input_.LBG) = 1 /\ input_.LBG[1] = Fin(1) /\ input_.UBG[1] = Fin(0)

\* C6 (as claimed): every bounds error names the smallest index at which the
\* bound pair of the vector it reports on is violated.
C6_ErrorNamesSmallestIndex ==
  LET onX == lastCheck.msg \in {"Ill-posed problem detected (x bounds)",
                                "LBX[i] <= UBX[i] was violated for i="}
      lb == IF onX THEN input_.LBX ELSE input_.LBG
      ub == IF onX THEN input_.UBX ELSE input_.UBG
      bad(i) == IF lastCheck.op = "checkInitialBounds"
                THEN IllPosed(<<lb[i]>>, <<ub[i]>>)
                ELSE ~DLe(lb[i], ub[i])
  IN lastCheck.status = "error" =>
       /\ lastCheck.index # <<>>
       /\ bad(lastCheck.index[1] + 1)
       /\ \A i \in 1..lastCheck.index[1] : ~bad(i)

\* C7: with well-posed bounds checkInitialBounds does not fail; if some x0[k]
\* is outside [lbx[k], ubx[k]] it warns exactly when warn_initial_bounds is
\* true; it does not warn when every x0[k] is within its bounds; and it
\* changes neither x0 nor the bounds.
C7_WarningOnly ==
  /\ [](LET x0 == input_.X0
            lb == input_.LBX
            ub == input_.UBX
            below(k) == x0[k].cls # "nan" /\ lb[k].cls # "nan" /\ Ord(x0[k]) < Ord(lb[k])
            above(k) == x0[k].cls # "nan" /\ ub[k].cls # "nan" /\ Ord(x0[k]) > Ord(ub[k])
            within(k) == /\ x0[k].cls # "nan" /\ lb[k].cls # "nan" /\ ub[k].cls # "nan"
                         /\ Ord(lb[k]) <= Ord(x0[k]) /\ Ord(x0[k]) <= Ord(ub[k])
        IN /\ lastCheck.op = "checkInitialBounds"
           /\ ~IllPosed(lb, ub) /\ ~IllPosed(input_.LBG, input_.UBG)
           => /\ lastCheck.status = "ok"
              /\ ((\E k \in 1..Len(x0) : below(k) \/ above(k)) =>
                    (lastCheck.warned <=> warn_initial_bounds))
              /\ ((\A k \in 1..Len(x0) : within(k)) => ~lastCheck.warned))
  /\ [][lastCheck'.op = "checkInitialBounds" =>
          /\ input_'.X0 = input_.X0
          /\ input_'.LBX = input_.LBX /\ input_'.UBX = input_.UBX
          /\ input_'.LBG = input_.LBG /\ input_'.UBG = input_.UBG]_vars

\* C7 witness: a warning for an initial guess below its lower bound at the
\* second index, the first index being within its bounds.
C7_Witness ==
  /\ lastCheck.op = "checkInitialBounds" /\ lastCheck.status = "ok" /\ lastCheck.warned
  /\ Len(input_.X0) = 2
  /\ input_.X0[1] = Fin(0) /\ input_.UBX[1] = PInf /\ input_.LBX[1] = NInf
  /\ input_.X0[2] = Fin(0) /\ input_.LBX[2] = Fin(1)

\* C8: init fails exactly when the NLP function does not have two inputs and
\* two outputs, and a failed init has allocated no input or output buffer.
C8_InitChecksArity ==
  /\ nlpPhase = "initialized" => nlp_.nin = 2 /\ nlp_.nout = 2 /\ DOMAIN input_ # {}
  /\ nlpPhase = "init_failed" =>
       /\ nlp_.nin # 2 \/ nlp_.nout # 2
       /\ DOMAIN input_ = {} /\ DOMAIN output_ = {}

\* C8 witness: init failed on an NLP function with two inputs and three outputs.
C8_Witness == nlpPhase = "init_failed" /\ nlp_.nin = 2 /\ nlp_.nout = 3


(***************************************************************************)
(* FlatOCPInternal: symbolic expressions.  An expression is a record        *)
(*   [op, name, val, args]: a variable symbol ("var"), the symbol of a      *)
(* variable's time derivative ("der"), a constant ("const") or an           *)
(* operation on the expressions args.  A name is <<identifier, index>>,     *)
(* e.g. <<"y", 2>> for y[2] and <<"x", 0>> for x.  An exception thrown      *)
(* while an expression is read is carried as op = "throw".                  *)
(***************************************************************************)
NoName == <<"", 0>>
\* Variable::var(): the symbol of the variable with qualified name n
Sym(n) == [op |-> "var", name |-> n, val |-> 0, args |-> <<>>]
\* Variable::der(): the symbol of the time derivative of the variable n
DerSym(n) == [op |-> "der", name |-> n, val |-> 0, args |-> <<>>]
\* a numeric constant
Num(c) == [op |-> "const", name |-> NoName, val |-> c, args |-> <<>>]
Threw(msg) == [op |-> "throw", name |-> <<msg, 0>>, val |-> 0, args |-> <<>>]
\* a binary operation of SX; an exception in an operand propagates
Binary(o, a, b) ==
  IF a.op = "throw" THEN a
  ELSE IF b.op = "throw" THEN b
  ELSE [op |-> o, name |-> NoName, val |-> 0, args |-> <<a, b>>]

\* var(list): the symbols of a list of variables
var(list) == [i \in 1..Len(list) |-> Sym(list[i])]

\* the names of the variable symbols an expression references
RECURSIVE Symbols(_)
Symbols(e) ==
  IF e.op = "var" THEN {e.name}
  ELSE UNION {Symbols(e.args[i]) : i \in 1..Len(e.args)}

\* One expression with every occurrence of a symbol v[i] replaced by vdef[i],
\* all at once: the inserted expressions are not substituted again.
RECURSIVE substituteOne(_, _, _)
substituteOne(e, v, vdef) ==
  IF e.op \in {"var", "der"}
  THEN IF \E i \in 1..Len(v) : v[i] = e
       THEN vdef[CHOOSE i \in 1..Len(v) : v[i] = e /\ \A j \in 1..(i - 1) : v[j] # e]
       ELSE e
  ELSE [e EXCEPT !.args = [i \in 1..Len(e.args) |-> substituteOne(e.args[i], v, vdef)]]

\* substitute(ex, v, vdef): simultaneous substitution in a list of expressions
substitute(ex, v, vdef) == [i \in 1..Len(ex) |-> substituteOne(ex[i], v, vdef)]

\* simplification of constant subexpressions
RECURSIVE foldConstants(_)
foldConstants(e) ==
  IF Len(e.args) = 0 THEN e
  ELSE LET a == [i \in 1..Len(e.args) |-> foldConstants(e.args[i])]
       IN IF e.op = "add" /\ a[1].op = "const" /\ a[2].op = "const"
          THEN Num(a[1].val + a[2].val)
          ELSE IF e.op = "sub" /\ a[1].op = "const" /\ a[2].op = "const"
          THEN Num(a[1].val - a[2].val)
          ELSE [e EXCEPT !.args = a]

RECURSIVE substituteRounds(_, _, _, _)
substituteRounds(ex, v, vdef, rounds) ==
  IF rounds = 0 THEN ex
  ELSE substituteRounds(substitute(ex, v, vdef), v, vdef, rounds - 1)

\* substituteInPlace(v, vdef, eliminate_constants): the definitions vdef of
\* the symbols v substituted into each other until no definition references
\* a symbol of v; a cyclic definition is reported as an error.
substituteInPlace(v, vdef, eliminate_constants) ==
  LET r == substituteRounds(vdef, v, vdef, Len(v))
      left == UNION {Symbols(r[i]) : i \in 1..Len(r)}
  IN IF \E i \in 1..Len(v) : v[i].name \in left
     THEN [data |-> vdef, thrown |-> "cyclic definition"]
     ELSE [data |-> IF eliminate_constants
                    THEN [i \in 1..Len(r) |-> foldConstants(r[i])]
                    ELSE r,
           thrown |-> ""]


(***************************************************************************)
(* FlatOCPInternal: the XML document and parse.  A node is a record         *)
(*   [name, qn, val, children]: qn is the qualified name a name node spells *)
(* and val the number a literal's text spells.  The passes work on the      *)
(* record of the object's members and return the changed record; an         *)
(* exception leaves its message in the field thrown.                        *)
(***************************************************************************)
Node(name, qn, val, children) ==
  [name |-> name, qn |-> qn, val |-> val, children |-> children]

Failed(o) == o.thrown # ""
Throw(o, msg) == [o EXCEPT !.thrown = msg]

\* FlatOCPInternal::variable, as a test: is the name in the registry
hasVariable(o, name) == name \in DOMAIN o.varmap_

\* FlatOCPInternal::addVariable
\* Faulty variant of addVariable: a name already registered is overwritten.
addVariableOverwriting(o, name, v) ==
  [o EXCEPT !.varmap_ = [n \in DOMAIN o.varmap_ \cup {name} |->
                           IF n = name THEN v ELSE o.varmap_[n]]]

addVariable(o, name, v) ==
  IF hasVariable(o, name)
  THEN Throw(o, "Variable has already been added")
  ELSE [o EXCEPT !.varmap_ = [n \in DOMAIN o.varmap_ \cup {name} |->
                                IF n = name THEN v ELSE o.varmap_[n]]]

\* FlatOCPInternal::readExpr, for the node kinds Add, Sub, Der, Identifier and
\* IntegerLiteral; any other kind ends in the final throw.  readVariable
\* throws for a name that is not in the registry.
RECURSIVE readExpr(_, _)
readExpr(o, node) ==
  CASE node.name = "exp:Add" ->
         Binary("add", readExpr(o, node.children[1]), readExpr(o, node.children[2]))
    [] node.name = "exp:Sub" ->
         Binary("sub", readExpr(o, node.children[1]), readExpr(o, node.children[2]))
    [] node.name = "exp:Der" ->
         IF hasVariable(o, node.children[1].qn) THEN DerSym(node.children[1].qn)
         ELSE Threw("No such variable")
    [] node.name = "exp:Identifier" ->
         IF hasVariable(o, node.qn) THEN Sym(node.qn) ELSE Threw("No such variable")
    [] node.name = "exp:IntegerLiteral" -> Num(node.val)
    [] OTHER -> Threw("FlatOCPInternal::readExpr: unknown node")

\* The variables whose derivative symbol reading the node asks for:
\* "readVariable(node[0]).der(true)" allocates the symbol if there is none.
RECURSIVE dersRead(_)
dersRead(node) ==
  IF node.name = "exp:Der" THEN {node.children[1].qn}
  ELSE UNION {dersRead(node.children[i]) : i \in 1..Len(node.children)}

\* FlatOCPInternal::addModelVariables, from the i-th variable node on
RECURSIVE addModelVariables(_, _, _)
addModelVariables(o, modvars, i) ==
  IF Failed(o) \/ i > Len(modvars) THEN o
  ELSE LET vnode == modvars[i] IN
    IF vnode.alias \in {"alias", "negatedAlias"} \/ hasVariable(o, vnode.qn)
    THEN addModelVariables(o, modvars, i + 1)
    ELSE IF vnode.variability \notin {"constant", "parameter", "discrete", "continuous"}
    THEN Throw(o, "Unknown variability")
    ELSE IF vnode.causality \notin {"input", "output", "internal"}
    THEN Throw(o, "Unknown causality")
    ELSE IF vnode.alias # "noAlias"
    THEN Throw(o, "Unknown alias")
    ELSE addModelVariables(
           addVariable(o, vnode.qn,
                       [variability |-> vnode.variability, causality |-> vnode.causality,
                        nominal |-> vnode.nominal, free |-> vnode.free]),
           modvars, i + 1)

\* FlatOCPInternal::addBindingEquations, from the i-th binding equation on
RECURSIVE addBindingEquations(_, _, _)
addBindingEquations(o, bindeqs, i) ==
  IF Failed(o) \/ i > Len(bindeqs) THEN o
  ELSE LET beq == bindeqs[i]
           bexpr == readExpr(o, beq.children[2])
       IN IF ~hasVariable(o, beq.children[1].qn) THEN Throw(o, "No such variable")
          ELSE IF bexpr.op = "throw" THEN Throw(o, bexpr.name[1])
          ELSE addBindingEquations(
                 [o EXCEPT !.y_ = Append(@, beq.children[1].qn),
                           !.dep_ = Append(@, bexpr),
                           !.der_ = @ \cup dersRead(beq.children[2])],
                 bindeqs, i + 1)

\* The loop "for each child: list.push_back(readExpr(child))" on the member
\* named field, from the i-th child on.
RECURSIVE pushExprs(_, _, _, _)
pushExprs(o, field, nodes, i) ==
  IF Failed(o) \/ i > Len(nodes) THEN o
  ELSE LET e == readExpr(o, nodes[i])
       IN IF e.op = "throw" THEN Throw(o, e.name[1])
          ELSE pushExprs([o EXCEPT ![field] = Append(@, e),
                                   !.der_ = @ \cup dersRead(nodes[i])],
                         field, nodes, i + 1)

\* FlatOCPInternal::addDynamicEquations
addDynamicEquations(o, dyneqs) == pushExprs(o, "dae_", dyneqs, 1)

\* FlatOCPInternal::addInitialEquations, from the i-th node on
RECURSIVE addInitialEquations(_, _, _)
addInitialEquations(o, initeqs, i) ==
  IF Failed(o) \/ i > Len(initeqs) THEN o
  ELSE addInitialEquations(pushExprs(o, "initial_", initeqs[i].children, 1),
                           initeqs, i + 1)

\* FlatOCPInternal::addObjectiveFunction
addObjectiveFunction(o, onode) == pushExprs(o, "mterm_", onode.children, 1)

\* FlatOCPInternal::addIntegrandObjectiveFunction
addIntegrandObjectiveFunction(o, onode) == pushExprs(o, "lterm_", onode.children, 1)

\* Faulty variant of addConstraints: the bounds of Leq and Geq are exchanged.
RECURSIVE addConstraintsExchanged(_, _, _)
addConstraintsExchanged(o, onode, i) ==
  IF Failed(o) \/ i > Len(onode.children) THEN o
  ELSE LET constr_i == onode.children[i]
           known == constr_i.name \in {"opt:ConstraintLeq", "opt:ConstraintGeq",
                                       "opt:ConstraintEq"}
           ex == readExpr(o, constr_i.children[1])
           rhs == readExpr(o, constr_i.children[2])
           diff == Binary("sub", ex, rhs)
           lo == IF constr_i.name = "opt:ConstraintGeq" THEN NInf ELSE Fin(0)
           hi == IF constr_i.name = "opt:ConstraintLeq" THEN PInf ELSE Fin(0)
       IN IF ~known THEN Throw(o, "FlatOCPInternal::addConstraints")
          ELSE IF diff.op = "throw" THEN Throw(o, diff.name[1])
          ELSE addConstraintsExchanged([o EXCEPT !.path_ = Append(@, diff),
                                                 !.path_min_ = Append(@, lo),
                                                 !.path_max_ = Append(@, hi),
                                                 !.der_ = @ \cup dersRead(constr_i)],
                                       onode, i + 1)

\* FlatOCPInternal::addConstraints, from the i-th constraint on
RECURSIVE addConstraints(_, _, _)
addConstraints(o, onode, i) ==
  IF Failed(o) \/ i > Len(onode.children) THEN o
  ELSE LET constr_i == onode.children[i]
           known == constr_i.name \in {"opt:ConstraintLeq", "opt:ConstraintGeq",
                                       "opt:ConstraintEq"}
           ex == readExpr(o, constr_i.children[1])
           rhs == readExpr(o, constr_i.children[2])
           diff == Binary("sub", ex, rhs)
           lo == IF constr_i.name = "opt:ConstraintLeq" THEN NInf ELSE Fin(0)
           hi == IF constr_i.name = "opt:ConstraintGeq" THEN PInf ELSE Fin(0)
       IN IF ~known THEN Throw(o, "FlatOCPInternal::addConstraints")
          ELSE IF diff.op = "throw" THEN Throw(o, diff.name[1])
          ELSE addConstraints([o EXCEPT !.path_ = Append(@, diff),
                                        !.path_min_ = Append(@, lo),
                                        !.path_max_ = Append(@, hi),
                                        !.der_ = @ \cup dersRead(constr_i)],
                              onode, i + 1)

\* The loop of addOptimization over the children of opt:Optimization; an
\* exception of addObjectiveFunction or addIntegrandObjectiveFunction is
\* caught and reported as a warning.
RECURSIVE addOptimizationChildren(_, _, _)
addOptimizationChildren(o, opts, i) ==
  IF Failed(o) \/ i > Len(opts) THEN o
  ELSE LET onode == opts[i]
           next == CASE onode.name = "opt:ObjectiveFunction" ->
                          [addObjectiveFunction(o, onode) EXCEPT !.thrown = ""]
                     [] onode.name = "opt:IntegrandObjectiveFunction" ->
                          [addIntegrandObjectiveFunction(o, onode) EXCEPT !.thrown = ""]
                     [] onode.name \in {"opt:IntervalStartTime", "opt:IntervalFinalTime",
                                        "opt:TimePoints"} -> o
                     [] onode.name = "opt:Constraints" -> addConstraints(o, onode, 1)
                     [] OTHER -> Throw(o, "FlatOCPInternal::addOptimization: Unknown node")
       IN addOptimizationChildren(next, opts, i + 1)

\* FlatOCPInternal::addOptimization
addOptimization(o, opts) ==
  LET named(n) == {i \in 1..Len(opts) : opts[i].name = n}
      first(n) == opts[CHOOSE i \in named(n) : \A j \in named(n) : i <= j]
  IN IF named("opt:IntervalStartTime") = {} \/ named("opt:IntervalFinalTime") = {}
     THEN Throw(o, "XMLNode: no such child")
     ELSE addOptimizationChildren(
            [o EXCEPT !.t0_ = Fin(first("opt:IntervalStartTime").val),
                      !.tf_ = Fin(first("opt:IntervalFinalTime").val)],
            opts, 1)


\* The order of the registry (a map sorted by name): by identifier, then index.
nameLess(a, b) ==
  LET rank(c) == CASE c = "k" -> 1 [] c = "p" -> 2 [] c = "u" -> 3
                   [] c = "v" -> 4 [] c = "w" -> 5 [] c = "x" -> 6
                   [] c = "y" -> 7 [] OTHER -> 8
  IN rank(a[1]) < rank(b[1]) \/ (rank(a[1]) = rank(b[1]) /\ a[2] < b[2])

RECURSIVE inOrder(_)
inOrder(names) ==
  IF names = {} THEN <<>>
  ELSE LET n == CHOOSE a \in names : \A b \in names \ {a} : nameLess(a, b)
       IN <<n>> \o inOrder(names \ {n})

\* Faulty variant of the loop of sortType: a constant becomes a parameter.
RECURSIVE sortTypeLoopConstantAsParameter(_, _, _, _)
sortTypeLoopConstantAsParameter(o, marked, names, i) ==
  IF Failed(o) \/ i > Len(names) THEN o
  ELSE LET n == names[i]
           v == o.varmap_[n]
           next ==
             IF n \in marked THEN o
             ELSE IF v.variability = "parameter"
             THEN IF v.free THEN [o EXCEPT !.p_ = Append(@, n)]
                  ELSE Throw(o, "assertion failed")
             ELSE IF v.variability = "continuous"
             THEN IF v.causality = "internal" THEN [o EXCEPT !.x_ = Append(@, n)]
                  ELSE IF v.causality = "input" THEN [o EXCEPT !.u_ = Append(@, n)]
                  ELSE o
             ELSE IF v.variability = "constant"
             THEN [o EXCEPT !.p_ = Append(@, n)]
             ELSE o
       IN sortTypeLoopConstantAsParameter(next, marked, names, i + 1)

\* The loop of sortType over the registry, from the i-th name on; marked are
\* the variables that were in y_ when sortType started.
RECURSIVE sortTypeLoop(_, _, _, _)
sortTypeLoop(o, marked, names, i) ==
  IF Failed(o) \/ i > Len(names) THEN o
  ELSE LET n == names[i]
           v == o.varmap_[n]
           next ==
             IF n \in marked THEN o
             ELSE IF v.variability = "parameter"
             THEN IF v.free THEN [o EXCEPT !.p_ = Append(@, n)]
                  ELSE Throw(o, "assertion failed")
             ELSE IF v.variability = "continuous"
             THEN IF v.causality = "internal" THEN [o EXCEPT !.x_ = Append(@, n)]
                  ELSE IF v.causality = "input" THEN [o EXCEPT !.u_ = Append(@, n)]
                  ELSE o
             ELSE IF v.variability = "constant"
             THEN [o EXCEPT !.y_ = Append(@, n), !.dep_ = Append(@, Num(v.nominal))]
             ELSE o
       IN sortTypeLoop(next, marked, names, i + 1)

\* FlatOCPInternal::sortType
sortType(o) ==
  sortTypeLoop([o EXCEPT !.x_ = <<>>, !.xd_ = <<>>, !.xa_ = <<>>,
                         !.u_ = <<>>, !.p_ = <<>>],
               {o.y_[i] : i \in 1..Len(o.y_)},
               inOrder(DOMAIN o.varmap_), 1)

\* the assertions at the end of parse
sizesConsistent(o) ==
  /\ Len(o.x_) = Len(o.dae_)
  /\ Len(o.xd_) = Len(o.ode_)
  /\ Len(o.xa_) = Len(o.alg_)
  /\ Len(o.q_) = Len(o.quad_)
  /\ Len(o.y_) = Len(o.dep_)

\* FlatOCPInternal::parse
parse(o, doc) ==
  LET s1 == addModelVariables(o, doc.ModelVariables, 1)
      s2 == addBindingEquations(s1, doc.BindingEquations, 1)
      s3 == addDynamicEquations(s2, doc.DynamicEquations)
      s4 == addInitialEquations(s3, doc.InitialEquations, 1)
      s5 == IF Failed(s4) \/ Len(doc.Optimization) = 0 THEN s4
            ELSE addOptimization(s4, doc.Optimization[1].children)
      s6 == IF Failed(s5) THEN s5 ELSE sortType(s5)
  IN IF Failed(s6) \/ sizesConsistent(s6) THEN s6
     ELSE Throw(s6, "assertion failed")

\* Faulty variant of eliminateInterdependencies: one simultaneous substitution of
\* dep_ into itself in place of substituteInPlace.
eliminateInterdependenciesOnce(o) ==
  [o EXCEPT !.dep_ = substitute(o.dep_, var(o.y_), o.dep_)]

\* FlatOCPInternal::eliminateInterdependencies
eliminateInterdependencies(o) ==
  LET r == substituteInPlace(var(o.y_), o.dep_, TRUE)
  IN IF r.thrown # "" THEN Throw(o, r.thrown) ELSE [o EXCEPT !.dep_ = r.data]

\* Faulty variant of eliminateDependent: the path constraints are not substituted.
eliminateDependentButPath(o) ==
  LET v == var(o.y_)
      v_old == o.dep_
  IN [o EXCEPT !.dae_ = substitute(@, v, v_old),
               !.ode_ = substitute(@, v, v_old),
               !.alg_ = substitute(@, v, v_old),
               !.quad_ = substitute(@, v, v_old),
               !.initial_ = substitute(@, v, v_old),
               !.mterm_ = substitute(@, v, v_old),
               !.lterm_ = substitute(@, v, v_old)]

\* Faulty variant of eliminateDependent: the substituted path constraints
\* are appended to path_ instead of replacing it.
eliminateDependentAppending(o) ==
  LET v == var(o.y_)
      v_old == o.dep_
  IN [o EXCEPT !.dae_ = substitute(@, v, v_old),
               !.ode_ = substitute(@, v, v_old),
               !.alg_ = substitute(@, v, v_old),
               !.quad_ = substitute(@, v, v_old),
               !.initial_ = substitute(@, v, v_old),
               !.path_ = @ \o substitute(@, v, v_old),
               !.mterm_ = substitute(@, v, v_old),
               !.lterm_ = substitute(@, v, v_old)]

\* FlatOCPInternal::eliminateDependent
eliminateDependent(o) ==
  LET v == var(o.y_)
      v_old == o.dep_
  IN [o EXCEPT !.dae_ = substitute(@, v, v_old),
               !.ode_ = substitute(@, v, v_old),
               !.alg_ = substitute(@, v, v_old),
               !.quad_ = substitute(@, v, v_old),
               !.initial_ = substitute(@, v, v_old),
               !.path_ = substitute(@, v, v_old),
               !.mterm_ = substitute(@, v, v_old),
               !.lterm_ = substitute(@, v, v_old)]

(***************************************************************************)
(* FlatOCPInternal: the documents and the calls                             *)
(***************************************************************************)
YName(i) == <<"y", i>>
Identifier(qn) == Node("exp:Identifier", qn, 0, <<>>)
IntegerLiteral(c) == Node("exp:IntegerLiteral", NoName, c, <<>>)
VariableNode(qn, variability, causality) ==
  [qn |-> qn, variability |-> variability, causality |-> causality,
   alias |-> "noAlias", nominal |-> 1, free |-> TRUE]

\* Right sides of binding equations: a state, a constant of the model, or
\* one more than a variable y[j] (which may be bound itself, earlier or
\* later in the list, or be the bound variable).
BindingExprs ==
  {Identifier(<<"x", 0>>), Identifier(<<"k", 0>>)}
  \cup {Node("exp:Add", NoName, 0, <<Identifier(YName(j)), IntegerLiteral(1)>>) :
          j \in 1..MaxBindings}

\* Expressions of the equations and of the optimization terms; z is not a
\* variable of the model.
EquationExprs ==
  {Identifier(<<"x", 0>>), Identifier(<<"k", 0>>), Identifier(<<"z", 0>>),
   Node("exp:Der", NoName, 0, <<Identifier(YName(1))>>)}
  \cup {Identifier(YName(j)) : j \in 1..MaxBindings}

\* The document with binding equations y[i] = rhs[i], i = 1..Len(rhs), the
\* expression eq in every dynamic and initial equation and the expression
\* obj in the Mayer term, the Lagrange term and the constraint obj <= 0.
Document(rhs, eq, obj) ==
  [ModelVariables |->
     <<VariableNode(<<"k", 0>>, "constant", "internal"),
       VariableNode(<<"p", 0>>, "parameter", "internal"),
       VariableNode(<<"u", 0>>, "continuous", "input"),
       VariableNode(<<"x", 0>>, "continuous", "internal")>>
     \o [i \in 1..MaxBindings |-> VariableNode(YName(i), "continuous", "internal")],
   BindingEquations |->
     [i \in 1..Len(rhs) |-> Node("equ:BindingEquation", NoName, 0,
                                 <<Identifier(YName(i)), rhs[i]>>)],
   DynamicEquations |-> [i \in 1..(1 + MaxBindings - Len(rhs)) |-> eq],
   InitialEquations |-> <<Node("equ:Equation", NoName, 0, <<eq>>)>>,
   Optimization |->
     <<Node("opt:Optimization", NoName, 0,
            <<Node("opt:IntervalStartTime", NoName, 0, <<>>),
              Node("opt:IntervalFinalTime", NoName, 1, <<>>),
              Node("opt:ObjectiveFunction", NoName, 0, <<obj>>),
              Node("opt:IntegrandObjectiveFunction", NoName, 0, <<obj>>),
              Node("opt:Constraints", NoName, 0,
                   <<Node("opt:ConstraintLeq", NoName, 0,
                          <<obj, IntegerLiteral(0)>>)>>)>>)>>]

Documents ==
  {Document(rhs, eq, obj) :
     rhs \in UNION {[1..n -> BindingExprs] : n \in 0..MaxBindings},
     eq \in EquationExprs, obj \in EquationExprs}

\* The call of parse on a constructed object.
Parse ==
  /\ ocpPhase = "constructed"
  /\ LET r == parse(ocp, document_)
     IN /\ ocp' = r
        /\ ocpPhase' = IF Failed(r) THEN "parse_failed" ELSE "parsed"
  /\ UNCHANGED <<document_, passes, locals, nlpVars>>

CanPass == ocpPhase = "parsed" /\ Len(passes) < MaxPasses

\* A call of a pass that leaves the members r and had the locals loc: an
\* exception leaves the members as the pass left them.
CalledWith(op, r, loc) ==
  /\ ocp' = [r EXCEPT !.thrown = ""]
  /\ passes' = Append(passes, [op |-> op, ok |-> ~Failed(r)])
  /\ locals' = loc
  /\ UNCHANGED <<document_, ocpPhase, nlpVars>>

Called(op, r) == CalledWith(op, r, NoLocals)

EliminateInterdependencies ==
  CanPass /\ Called("eliminateInterdependencies", eliminateInterdependencies(ocp))

EliminateDependent ==
  CanPass /\ Called("eliminateDependent", eliminateDependent(ocp))

InitOcp ==
  /\ \E doc \in Documents : FlatOCPConstructed(doc)
  /\ Constructed([nin |-> NL_NUM_IN, nout |-> NL_NUM_OUT, nx |-> 0, np |-> 1, ng |-> 0])

NextOcp ==
  \/ Parse
  \/ EliminateInterdependencies
  \/ EliminateDependent

SpecOcp == InitOcp /\ [][NextOcp]_vars


(***************************************************************************)
(* Properties of the elimination passes (checked under SpecOcp)             *)
(***************************************************************************)
\* the names of the variables in the dependent list
Dependent(o) == {o.y_[i] : i \in 1..Len(o.y_)}

\* the names of the variable symbols referenced in a list of expressions
Referenced(list) == UNION {Symbols(list[i]) : i \in 1..Len(list)}

EquationSets(o) ==
  <<o.dae_, o.ode_, o.alg_, o.quad_, o.initial_, o.path_, o.mterm_, o.lterm_>>

\* the positions of the dependent variables that dep_[i] references
DependsOn(o, i) == {j \in 1..Len(o.y_) : o.y_[j] \in Symbols(o.dep_[i])}

RECURSIVE Reaches(_, _, _)
Reaches(o, S, n) ==
  IF n = 0 THEN S
  ELSE Reaches(o, S \cup UNION {DependsOn(o, j) : j \in S}, n - 1)

\* no dependent variable is defined, directly or through other dependent
\* variables, in terms of itself
Acyclic(o) ==
  \A i \in 1..Len(o.y_) : i \notin Reaches(o, DependsOn(o, i), Len(o.y_))

IsCall(pass, op) == pass.op = op

\* C9: on a parsed model with acyclic binding equations, once
\* eliminateInterdependencies and after it eliminateDependent have been
\* called, no expression of dae, ode, alg, quad, initial, path, Mayer terms or
\* Lagrange terms references the symbol of a variable of y_.
C9_NoDependentSymbolLeft ==
  /\ ocpPhase = "parsed" /\ Acyclic(ocp)
  /\ \E i, j \in 1..Len(passes) :
       /\ i < j
       /\ IsCall(passes[i], "eliminateInterdependencies")
       /\ IsCall(passes[j], "eliminateDependent")
  => \A s \in 1..Len(EquationSets(ocp)) :
       Referenced(EquationSets(ocp)[s]) \cap Dependent(ocp) = {}

\* C9 witness: y[1] = y[2] + 1 and y[2] = x are bound, every equation and
\* term is y[1]; after the two passes the equations read x + 1.
C9_Witness ==
  /\ passes = <<[op |-> "eliminateInterdependencies", ok |-> TRUE],
                [op |-> "eliminateDependent", ok |-> TRUE]>>
  /\ document_.DynamicEquations = <<Identifier(YName(1))>>
  /\ ocp.y_ = <<YName(1), YName(2), <<"k", 0>>>>
  /\ ocp.dae_ = <<Binary("add", Sym(<<"x", 0>>), Num(1))>>
  /\ ocp.initial_ = ocp.dae_ /\ ocp.mterm_ = ocp.dae_ /\ ocp.lterm_ = ocp.dae_
  /\ ocp.path_ = <<Binary("sub", Binary("add", Sym(<<"x", 0>>), Num(1)), Num(0))>>

\* C10: a call of eliminateInterdependencies on acyclic binding equations
\* returns normally and leaves every expression of dep_ free of symbols of
\* variables of y_, wherever in the list and however deep the references
\* were; y_ and the length of dep_ are unchanged, and an expression that
\* referenced no dependent variable stays at its position.
C10_DepInNonDependentVariables ==
  [][/\ Len(passes') = Len(passes) + 1
     /\ IsCall(passes'[Len(passes')], "eliminateInterdependencies")
     /\ Acyclic(ocp)
     => /\ passes'[Len(passes')].ok
        /\ Referenced(ocp'.dep_) \cap Dependent(ocp') = {}
        /\ ocp'.y_ = ocp.y_
        /\ Len(ocp'.dep_) = Len(ocp.dep_)
        /\ \A i \in 1..Len(ocp.dep_) :
             Symbols(ocp.dep_[i]) \cap Dependent(ocp) = {} =>
               ocp'.dep_[i] = ocp.dep_[i]]_vars

\* C10 witness: y[1] = y[2] + 1 is listed before y[2] = k, and the constant
\* k is itself dependent: a chain of depth three resolved to constants.
C10_Witness ==
  /\ passes = <<[op |-> "eliminateInterdependencies", ok |-> TRUE]>>
  /\ Len(document_.BindingEquations) = 2
  /\ document_.BindingEquations[1].children[2].name = "exp:Add"
  /\ document_.BindingEquations[1].children[2].children[1] = Identifier(YName(2))
  /\ ocp.y_ = <<YName(1), YName(2), <<"k", 0>>>>
  /\ ocp.dep_ = <<Num(2), Num(1), Num(1)>>

\* the step is a call of the pass op, made after parse
PassCalled(op) ==
  /\ Len(passes') = Len(passes) + 1
  /\ IsCall(passes'[Len(passes')], op)

\* the outcome of the pass call the step makes
ReturnedNormally == passes'[Len(passes')].ok

\* no equation set of o references the symbol of a variable of y_
NoDependentSymbol(o) ==
  \A s \in 1..Len(EquationSets(o)) :
    Referenced(EquationSets(o)[s]) \cap Dependent(o) = {}

\* C11 (as claimed): on cyclic binding expressions a call of
\* eliminateInterdependencies or of eliminateDependent reports the cyclic
\* definition: it does not return normally with a symbol of a dependent
\* variable left in an equation set.
C11_CyclicDefinitionReported ==
  [][/\ PassCalled("eliminateInterdependencies") \/ PassCalled("eliminateDependent")
     /\ ~Acyclic(ocp)
     => ~ReturnedNormally \/ NoDependentSymbol(ocp')]_vars

\* eliminateInterdependencies and, after it, eliminateDependent have
\* returned normally
Eliminated ==
  \E i, j \in 1..Len(passes) :
    /\ i < j
    /\ passes[i] = [op |-> "eliminateInterdependencies", ok |-> TRUE]
    /\ passes[j] = [op |-> "eliminateDependent", ok |-> TRUE]

\* C12: a call of eliminateDependent on a model on which
\* eliminateInterdependencies and then eliminateDependent have already run
\* returns normally and changes no member of the object: the equation sets,
\* dep_ and the variable lists are the same before and after the call.
C12_SecondEliminateDependentNoOp ==
  [][PassCalled("eliminateDependent") /\ Eliminated
     => ReturnedNormally /\ ocp' = ocp]_vars

\* C12 witness: the first eliminateDependent replaced y[1] in the equations
\* (y[1] is bound, the dynamic equation was y[1]), the second call followed.
C12_Witness ==
  /\ passes = <<[op |-> "eliminateInterdependencies", ok |-> TRUE],
                [op |-> "eliminateDependent", ok |-> TRUE],
                [op |-> "eliminateDependent", ok |-> TRUE]>>
  /\ Len(document_.BindingEquations) >= 1
  /\ document_.DynamicEquations[1] = Identifier(YName(1))
  /\ Sym(YName(1)) \notin {ocp.dae_[i] : i \in 1..Len(ocp.dae_)}


(***************************************************************************)
(* FlatOCPInternal: scaling, sorting and causalization                     *)
(*                                                                         *)
(* The numeric evaluation of a Jacobian (SXFunction::jac, evaluate) and    *)
(* the decomposition CRSSparsity::dulmageMendelsohn are library code: the  *)
(* evaluated entries are an input of scaleEquations, the sparsity of a     *)
(* Jacobian is the structural dependence of the expressions on the         *)
(* symbols, and the decomposition is any finest block lower-triangular     *)
(* arrangement of the pattern it is given.                                 *)
(***************************************************************************)
\* the time symbol t_ made by the constructor
t_ == Sym(<<"t", 0>>)

\* der(list): the derivative symbols of a list of variables
der(list) == [i \in 1..Len(list) |-> DerSym(list[i])]

\* getNominal(list): the nominal values of a list of variables
getNominal(o, list) == [i \in 1..Len(list) |-> Num(o.varmap_[list[i]].nominal)]

\* Faulty variant of scaleVariables: without the assertion that the variables
\* are not scaled yet.
scaleVariablesRepeatable(o) ==
  LET v == <<t_>> \o var(o.x_) \o der(o.x_) \o var(o.xd_) \o var(o.xa_)
           \o var(o.p_) \o var(o.u_)
      n == <<Num(1)>> \o getNominal(o, o.x_) \o getNominal(o, o.x_)
           \o getNominal(o, o.xd_) \o getNominal(o, o.xa_)
           \o getNominal(o, o.p_) \o getNominal(o, o.u_)
      v_old == [i \in 1..Len(v) |-> Binary("mul", v[i], n[i])]
  IN [o EXCEPT !.dae_ = substitute(@, v, v_old),
               !.initial_ = substitute(@, v, v_old),
               !.path_ = substitute(@, v, v_old),
               !.mterm_ = substitute(@, v, v_old),
               !.lterm_ = substitute(@, v, v_old),
               !.scaled_variables_ = TRUE]

\* FlatOCPInternal::scaleVariables
scaleVariables(o) ==
  IF o.scaled_variables_ THEN Throw(o, "assertion failed")
  ELSE LET v == <<t_>> \o var(o.x_) \o der(o.x_) \o var(o.xd_) \o var(o.xa_)
                \o var(o.p_) \o var(o.u_)
           n == <<Num(1)>> \o getNominal(o, o.x_) \o getNominal(o, o.x_)
                \o getNominal(o, o.xd_) \o getNominal(o, o.xa_)
                \o getNominal(o, o.p_) \o getNominal(o, o.u_)
           v_old == [i \in 1..Len(v) |-> Binary("mul", v[i], n[i])]
       IN [o EXCEPT !.dae_ = substitute(@, v, v_old),
                    !.initial_ = substitute(@, v, v_old),
                    !.path_ = substitute(@, v, v_old),
                    !.mterm_ = substitute(@, v, v_old),
                    !.lterm_ = substitute(@, v, v_old),
                    !.scaled_variables_ = TRUE]

\* isnan, fabs and std::max on doubles
isnan(a) == a.cls = "nan"
fabs(a) ==
  IF a.cls = "fin" THEN Fin(IF a.v < 0 THEN -a.v ELSE a.v)
  ELSE IF a.cls = "inf" THEN PInf
  ELSE NaN
max(a, b) == IF DLt(a, b) THEN b ELSE a

\* a double as a constant of an expression
Real(a) == [op |-> "real", name |-> <<a.cls, a.v>>, val |-> 0, args |-> <<>>]

\* The loop of scaleEquations over the stored entries of one row of J0, from
\* entry el on.
RECURSIVE rowMax(_, _, _)
rowMax(row, el, scale) ==
  IF el > Len(row) THEN scale
  ELSE rowMax(row, el + 1,
              IF ~isnan(row[el]) THEN max(scale, fabs(row[el])) ELSE scale)

\* whether scaleEquations prints its warning for the row
warned(row) == DEq(rowMax(row, 1, Fin(0)), Fin(0))

\* scale[i] of scaleEquations for the row J0[i]
scaleOf(row) == IF warned(row) THEN Fin(1) ELSE rowMax(row, 1, Fin(0))

\* Faulty variant of scaleEquations: no assertion on scaled_variables_.
scaleEquationsUnguarded(o, J0) ==
  IF o.scaled_equations_ THEN Throw(o, "assertion failed")
  ELSE IF o.dae_ = <<>> THEN o
  ELSE [o EXCEPT !.dae_ = [i \in 1..Len(@) |->
                             Binary("div", @[i], Real(scaleOf(J0[i])))],
                 !.scaled_equations_ = TRUE]

\* Faulty variant of scaleEquations: no assertion on scaled_equations_.
scaleEquationsRepeatable(o, J0) ==
  IF ~o.scaled_variables_ THEN Throw(o, "assertion failed")
  ELSE IF o.dae_ = <<>> THEN o
  ELSE [o EXCEPT !.dae_ = [i \in 1..Len(@) |->
                             Binary("div", @[i], Real(scaleOf(J0[i])))],
                 !.scaled_equations_ = TRUE]

\* Faulty variant of scaleEquations: no quick return.
scaleEquationsNoQuickReturn(o, J0) ==
  IF o.scaled_equations_ THEN Throw(o, "assertion failed")
  ELSE IF ~o.scaled_variables_ THEN Throw(o, "assertion failed")
  ELSE [o EXCEPT !.dae_ = [i \in 1..Len(@) |->
                             Binary("div", @[i], Real(scaleOf(J0[i])))],
                 !.scaled_equations_ = TRUE]

\* FlatOCPInternal::scaleEquations, J0 being the evaluated Jacobian
scaleEquations(o, J0) ==
  IF o.scaled_equations_ THEN Throw(o, "assertion failed")
  ELSE IF ~o.scaled_variables_ THEN Throw(o, "assertion failed")
  ELSE IF o.dae_ = <<>> THEN o
  ELSE [o EXCEPT !.dae_ = [i \in 1..Len(@) |->
                             Binary("div", @[i], Real(scaleOf(J0[i])))],
                 !.scaled_equations_ = TRUE]

\* the symbols (of variables and of derivatives) an expression references
RECURSIVE leaves(_)
leaves(e) ==
  IF e.op \in {"var", "der"} THEN {e}
  ELSE UNION {leaves(e.args[i]) : i \in 1..Len(e.args)}

\* The columns of the Jacobian of scaleEquations: [var(xd_), var(xa_),
\* var(p_), var(u_)].
xz(o) == var(o.xd_) \o var(o.xa_) \o var(o.p_) \o var(o.u_)

\* sparsity of the Jacobian of the expressions ex with respect to the symbols
\* wrt: per row the set of columns the row depends on
sparsity(ex, wrt) ==
  [i \in 1..Len(ex) |-> {j \in 1..Len(wrt) : wrt[j] \in leaves(ex[i])}]

\* highest(list): per variable the derivative symbol if the variable has
\* one, else the symbol of the variable
highest(o, list) ==
  [i \in 1..Len(list) |->
     IF list[i] \in o.der_ THEN DerSym(list[i]) ELSE Sym(list[i])]

\* a set of numbers in increasing order
ascending(S) ==
  [k \in 1..Cardinality(S) |-> CHOOSE a \in S : Cardinality({b \in S : b < a}) = k - 1]

Perms(n) == {f \in [1..n -> 1..n] : \A i, j \in 1..n : f[i] = f[j] => i = j}

\* block boundaries of n rows: block k is rows r[k] to r[k+1]-1, counted from 0
Boundaries(n) == {ascending({0, n} \cup cut) : cut \in SUBSET (1..(n - 1))}

\* the block of row or column i (counted from 1) for the boundaries r
blockOf(r, i) == CHOOSE k \in 1..(Len(r) - 1) : r[k] < i /\ i <= r[k + 1]

\* the pattern sp with rows and columns permuted
permuted(sp, rowperm, colperm) ==
  [i \in 1..Len(sp) |-> {j \in 1..Len(colperm) : colperm[j] \in sp[rowperm[i]]}]

\* no structural nonzero above the block diagonal
blockLowerTriangular(sp, rowblock, colblock) ==
  \A i \in 1..Len(sp) : \A j \in sp[i] : blockOf(colblock, j) <= blockOf(rowblock, i)

\* CRSSparsity::dulmageMendelsohn on a square pattern: the results it may
\* return, each a block lower-triangular arrangement with the most blocks
dulmageMendelsohn(sp) ==
  LET n == Len(sp)
      arrangements ==
        {[NoLocals EXCEPT !.rowperm = rp, !.colperm = cp,
                          !.rowblock = b, !.colblock = b, !.nb = Len(b) - 1] :
           rp \in Perms(n), cp \in Perms(n), b \in Boundaries(n)}
      lower == {a \in arrangements :
                  blockLowerTriangular(permuted(sp, a.rowperm, a.colperm),
                                       a.rowblock, a.colblock)}
  IN {a \in lower : \A c \in lower : c.nb <= a.nb}

invtau == Sym(<<"invtau", 0>>)

\* the pattern sortBLT hands to the decomposition
sortBLTSparsity(o, with_x) ==
  IF with_x
  THEN LET dae_with_x ==
             substitute(highest(o, o.x_), var(o.xd_),
                        [i \in 1..Len(o.xd_) |-> Binary("mul", invtau, Sym(o.xd_[i]))])
       IN sparsity(dae_with_x, highest(o, o.x_))
  ELSE sparsity(o.dae_, highest(o, o.x_))

\* Faulty variant of sortBLT: the variables are permuted like the equations.
sortBLTByRows(o, dm) ==
  [o EXCEPT !.dae_ = [i \in 1..Len(@) |-> @[dm.rowperm[i]]],
            !.x_ = [i \in 1..Len(@) |-> @[dm.rowperm[i]]]]

\* FlatOCPInternal::sortBLT, dm being the result of the decomposition
sortBLT(o, dm) ==
  [o EXCEPT !.dae_ = [i \in 1..Len(@) |-> @[dm.rowperm[i]]],
            !.x_ = [i \in 1..Len(@) |-> @[dm.colperm[i]]]]

\* FlatOCPInternal::makeExplicit: the body is compiled out after the assertion
makeExplicit(o) == Throw(o, "assertion failed")

\* vector::erase of the k-th element
erase(list, k) == [i \in 1..(Len(list) - 1) |-> IF i < k THEN list[i] ELSE list[i + 1]]

\* the first position of v in a list, 0 if there is none
find(list, v) ==
  IF \E k \in 1..Len(list) : list[k] = v
  THEN CHOOSE k \in 1..Len(list) : list[k] = v /\ \A j \in 1..(k - 1) : list[j] # v
  ELSE 0

\* Faulty variant of makeAlgebraic: the implicit branch erases the variable
\* from x_ as the explicit branch erases it from xd_.
makeAlgebraicErasing(o, v) ==
  IF find(o.xd_, v) # 0
  THEN LET k == find(o.xd_, v)
       IN [o EXCEPT !.xa_ = Append(@, v),
                    !.alg_ = Append(@, o.ode_[k]),
                    !.xd_ = erase(@, k),
                    !.ode_ = erase(@, k)]
  ELSE IF find(o.x_, v) # 0
  THEN [o EXCEPT !.dae_ = substitute(@, <<DerSym(v)>>, <<Num(0)>>),
                 !.x_ = erase(@, find(o.x_, v)),
                 !.xa_ = Append(@, v),
                 !.der_ = @ \ {v}]
  ELSE Throw(o, "v not a differential state")

\* FlatOCPInternal::makeAlgebraic
makeAlgebraic(o, v) ==
  IF find(o.xd_, v) # 0
  THEN LET k == find(o.xd_, v)
       IN [o EXCEPT !.xa_ = Append(@, v),
                    !.alg_ = Append(@, o.ode_[k]),
                    !.xd_ = erase(@, k),
                    !.ode_ = erase(@, k)]
  ELSE IF find(o.x_, v) # 0
  THEN [o EXCEPT !.dae_ = substitute(@, <<DerSym(v)>>, <<Num(0)>>),
                 !.der_ = @ \ {v}]
  ELSE Throw(o, "v not a differential state")


(***************************************************************************)
(* Models with states x[1], x[2], a parameter p and an input u, and the    *)
(* calls of all passes on them                                             *)
(***************************************************************************)
StateName(i) == <<"x", i>>
StateNames == <<StateName(1), StateName(2)>>
DerOf(qn) == Node("exp:Der", NoName, 0, <<Identifier(qn)>>)
AddOf(a, b) == Node("exp:Add", NoName, 0, <<a, b>>)
SubOf(a, b) == Node("exp:Sub", NoName, 0, <<a, b>>)

\* Residuals of dynamic equations: x1' = x2, x2' = -x1, x1' + x2' = 0 and
\* x1' = p + u.
RowExprs ==
  {SubOf(DerOf(StateName(1)), Identifier(StateName(2))),
   AddOf(DerOf(StateName(2)), Identifier(StateName(1))),
   AddOf(DerOf(StateName(1)), DerOf(StateName(2))),
   SubOf(DerOf(StateName(1)),
         AddOf(Identifier(<<"p", 0>>), Identifier(<<"u", 0>>)))}

\* The document declaring p, u and as many states as it has dynamic
\* equations eqs.
StateDocument(eqs) ==
  [ModelVariables |->
     <<VariableNode(<<"p", 0>>, "parameter", "internal"),
       VariableNode(<<"u", 0>>, "continuous", "input")>>
     \o [i \in 1..Len(eqs) |-> VariableNode(StateNames[i], "continuous", "internal")],
   BindingEquations |-> <<>>,
   DynamicEquations |-> eqs,
   InitialEquations |-> <<>>,
   Optimization |-> <<>>]

StateDocuments ==
  {StateDocument(eqs) : eqs \in UNION {[1..n -> RowExprs] : n \in 0..Len(StateNames)}}

\* Values an entry of the evaluated Jacobian may have.
JacobianEntries == {NaN, PInf, Fin(0), Fin(1), Fin(-2)}

\* The Jacobian of dae_ with respect to xz evaluated at the start values:
\* row i stores one entry per column the row depends on; the derivative with
\* respect to a symbol has the value val gives for the symbol.
evaluatedJacobian(o, val) ==
  LET sp == sparsity(o.dae_, xz(o))
  IN [i \in 1..Len(o.dae_) |->
        LET cols == ascending(sp[i])
        IN [k \in 1..Len(cols) |-> val[xz(o)[cols[k]].name]]]

Jacobians(o) ==
  {evaluatedJacobian(o, val) :
     val \in [{xz(o)[j].name : j \in 1..Len(xz(o))} -> JacobianEntries]}

\* whether a call of scaleEquations gets as far as the Jacobian: it has not
\* thrown at an assertion and has not taken the quick return
reachesJacobian(o, J0) ==
  ~Failed(scaleEquations(o, J0)) /\ scaleEquations(o, J0).scaled_equations_

ScaleVariables ==
  CanPass /\ Called("scaleVariables", scaleVariables(ocp))

ScaleEquations ==
  /\ CanPass
  /\ \E J0 \in Jacobians(ocp) :
       CalledWith("scaleEquations", scaleEquations(ocp, J0),
                  IF reachesJacobian(ocp, J0)
                  THEN [NoLocals EXCEPT !.evaluated = TRUE, !.J0 = J0]
                  ELSE NoLocals)

SortBLT ==
  /\ CanPass
  /\ \E with_x \in BOOLEAN :
       \E dm \in dulmageMendelsohn(sortBLTSparsity(ocp, with_x)) :
         CalledWith("sortBLT", sortBLT(ocp, dm), [dm EXCEPT !.with_x = with_x])

MakeAlgebraic ==
  /\ CanPass
  /\ \E v \in DOMAIN ocp.varmap_ : Called("makeAlgebraic", makeAlgebraic(ocp, v))

MakeExplicit ==
  CanPass /\ Called("makeExplicit", makeExplicit(ocp))

InitPasses ==
  /\ \E doc \in StateDocuments : FlatOCPConstructed(doc)
  /\ Constructed([nin |-> NL_NUM_IN, nout |-> NL_NUM_OUT, nx |-> 0, np |-> 1, ng |-> 0])

NextPasses ==
  \/ Parse
  \/ EliminateInterdependencies
  \/ EliminateDependent
  \/ ScaleVariables
  \/ ScaleEquations
  \/ SortBLT
  \/ MakeAlgebraic
  \/ MakeExplicit

SpecPasses == InitPasses /\ [][NextPasses]_vars

(***************************************************************************)
(* Properties of the passes (checked under SpecPasses)                     *)
(***************************************************************************)
\* C13: once parse has returned normally, and after every call of a pass
\* made later in any order (eliminateInterdependencies, eliminateDependent,
\* scaleVariables, scaleEquations, sortBLT, makeAlgebraic), the sizes agree:
\* |dae_| = |x_|, |ode_| = |xd_|, |alg_| = |xa_|, |quad_| = |q_| and
\* |dep_| = |y_|.
C13_SizeInvariant == ocpPhase = "parsed" => sizesConsistent(ocp)

\* Two states; makeAlgebraic, sortBLT and scaleVariables have returned
\* normally and sortBLT has exchanged the two variables.
C13_Witness ==
  /\ ocpPhase = "parsed"
  /\ passes = <<[op |-> "makeAlgebraic", ok |-> TRUE],
                [op |-> "sortBLT", ok |-> TRUE],
                [op |-> "scaleVariables", ok |-> TRUE]>>
  /\ ocp.x_ = <<StateName(2), StateName(1)>>
  /\ Len(ocp.dae_) = 2
  /\ ocp.der_ # {StateName(1), StateName(2)}
  /\ ocp.scaled_variables_

\* C14: equations are scaled only after variables are scaled, and a call of
\* scaleEquations made while the variables are not scaled fails (assertion)
\* and leaves dae_, scaled_variables_ and scaled_equations_ as they were.
C14_ScaleEquationsNeedsScaledVariables ==
  /\ [](ocp.scaled_equations_ => ocp.scaled_variables_)
  /\ [][PassCalled("scaleEquations") /\ ~ocp.scaled_variables_
        => /\ ~ReturnedNormally
           /\ ocp'.dae_ = ocp.dae_
           /\ ocp'.scaled_variables_ = ocp.scaled_variables_
           /\ ocp'.scaled_equations_ = ocp.scaled_equations_]_vars

\* scaleEquations has been called first on a model with two implicit
\* equations and has failed.
C14_Witness ==
  /\ passes = <<[op |-> "scaleEquations", ok |-> FALSE]>>
  /\ ~ocp.scaled_variables_
  /\ ~ocp.scaled_equations_
  /\ Len(ocp.dae_) = 2
  /\ locals = NoLocals

\* an earlier call of scaleEquations on the model has returned normally
ScaledBefore ==
  \E i \in 1..Len(passes) : passes[i] = [op |-> "scaleEquations", ok |-> TRUE]

\* C15: on a model on which a call of scaleEquations has returned normally,
\* every further call of scaleEquations fails and changes no equation.
C15_SecondScaleEquationsFails ==
  [][PassCalled("scaleEquations") /\ ScaledBefore
     => ~ReturnedNormally /\ ocp' = ocp]_vars

\* C15, for the models that have implicit equations: after a call of
\* scaleEquations has returned normally every further call fails and changes
\* nothing; on a model without implicit equations the further call returns
\* normally and changes nothing either.
C15_SecondScaleEquationsFailsUnlessEmpty ==
  [][PassCalled("scaleEquations") /\ ScaledBefore
     => /\ ocp' = ocp
        /\ ReturnedNormally <=> ocp.dae_ = <<>>
        /\ ocp.dae_ # <<>> => ocp.scaled_equations_]_vars

\* Two implicit equations: scaleVariables, scaleEquations, and a second
\* scaleEquations that has failed.
C15_Witness ==
  /\ passes = <<[op |-> "scaleVariables", ok |-> TRUE],
                [op |-> "scaleEquations", ok |-> TRUE],
                [op |-> "scaleEquations", ok |-> FALSE]>>
  /\ Len(ocp.dae_) = 2
  /\ \A i \in 1..2 : ocp.dae_[i].op = "div" /\ ocp.dae_[i].args[1].op # "div"
  /\ ocp.scaled_equations_

\* C16: a call of scaleEquations on a model without implicit equations
\* returns normally, changes no member (equation sets, variable lists,
\* flags) and evaluates no Jacobian.
C16_EmptyDaeNoOp ==
  [][PassCalled("scaleEquations") /\ ocp.dae_ = <<>>
     => ReturnedNormally /\ ocp' = ocp /\ locals' = NoLocals]_vars

\* C16, with the assertions that come before the quick return: a call of
\* scaleEquations on a model without implicit equations changes no member
\* and evaluates no Jacobian; it returns normally if the variables have
\* been scaled and fails otherwise.
C16_EmptyDaeNoOpOnceVariablesScaled ==
  [][PassCalled("scaleEquations") /\ ocp.dae_ = <<>>
     => /\ ocp' = ocp
        /\ locals' = NoLocals
        /\ ReturnedNormally <=> ocp.scaled_variables_]_vars

\* No implicit equations: scaleVariables, then scaleEquations has returned.
C16_Witness ==
  /\ passes = <<[op |-> "scaleVariables", ok |-> TRUE],
                [op |-> "scaleEquations", ok |-> TRUE]>>
  /\ ocp.dae_ = <<>>
  /\ ocp.scaled_variables_
  /\ ~ocp.scaled_equations_
  /\ ~locals.evaluated

\* the absolute values of the finite entries of a row
finiteAbs(row) == {fabs(row[k]).v : k \in {j \in 1..Len(row) : row[j].cls = "fin"}}

\* the largest absolute value among the finite entries of a row, 1 if the
\* row has no finite nonzero entry
finiteMax(row) ==
  IF finiteAbs(row) \ {0} = {} THEN Fin(1)
  ELSE Fin(CHOOSE m \in finiteAbs(row) : \A a \in finiteAbs(row) : a <= m)

\* C17: a call of scaleEquations that evaluates the Jacobian returns
\* normally and divides implicit equation i by the largest absolute value
\* among the finite entries (neither NaN nor infinite) of row i, or by 1 if
\* the row has no finite nonzero entry; the factor is finite and positive.
C17_ScaleIsFiniteRowMax ==
  [][PassCalled("scaleEquations") /\ locals'.evaluated
     => /\ ReturnedNormally
        /\ Len(locals'.J0) = Len(ocp.dae_)
        /\ \A i \in 1..Len(ocp.dae_) :
             /\ ocp'.dae_[i] = Binary("div", ocp.dae_[i], Real(finiteMax(locals'.J0[i])))
             /\ \E c \in 1..2 : ocp'.dae_[i].args[2] = Real(Fin(c))]_vars

\* The pattern the block structure is claimed for: the Jacobian of the
\* stored implicit equations with respect to the stored variables' highest
\* derivatives, for with_x with each state replaced by invtau times its
\* derivative.
storedSparsity(o, with_x) ==
  IF with_x
  THEN sparsity(substitute(o.dae_, var(o.x_),
                           [i \in 1..Len(o.x_) |-> Binary("mul", invtau, DerSym(o.x_[i]))]),
                highest(o, o.x_))
  ELSE sparsity(o.dae_, highest(o, o.x_))

\* C18: after sortBLT (with_x false or true) the Jacobian sparsity of the
\* stored implicit equations with respect to the stored variable list has
\* no structural nonzero above the block diagonal given by the block
\* boundaries of the decomposition.
C18_SortedIsBlockLowerTriangular ==
  [][PassCalled("sortBLT") /\ ReturnedNormally
     => blockLowerTriangular(storedSparsity(ocp', locals'.with_x),
                             locals'.rowblock, locals'.colblock)]_vars

\* the inverse of a permutation
inverse(perm) == [i \in 1..Len(perm) |-> CHOOSE j \in 1..Len(perm) : perm[j] = i]

\* C19: sortBLT returns normally and only reorders: the new dae_ is the old
\* dae_ permuted by the row permutation and the new x_ the old x_ permuted
\* by the column permutation, both permutations of all positions; permuting
\* back with the inverses gives the old orders; no other member is changed.
C19_SortOnlyReorders ==
  [][PassCalled("sortBLT")
     => /\ ReturnedNormally
        /\ locals'.rowperm \in Perms(Len(ocp.dae_))
        /\ locals'.colperm \in Perms(Len(ocp.x_))
        /\ ocp'.dae_ = [i \in 1..Len(ocp.dae_) |-> ocp.dae_[locals'.rowperm[i]]]
        /\ ocp'.x_ = [i \in 1..Len(ocp.x_) |-> ocp.x_[locals'.colperm[i]]]
        /\ ocp.dae_ = [i \in 1..Len(ocp.dae_) |-> ocp'.dae_[inverse(locals'.rowperm)[i]]]
        /\ ocp.x_ = [i \in 1..Len(ocp.x_) |-> ocp'.x_[inverse(locals'.colperm)[i]]]
        /\ ocp' = [ocp EXCEPT !.dae_ = ocp'.dae_, !.x_ = ocp'.x_]]_vars

\* sortBLT has exchanged two different equations and kept the order of the
\* two variables.
C19_Witness ==
  /\ passes = <<[op |-> "sortBLT", ok |-> TRUE]>>
  /\ locals.rowperm = <<2, 1>>
  /\ locals.colperm = <<1, 2>>
  /\ ocp.x_ = <<StateName(1), StateName(2)>>
  /\ Len(ocp.dae_) = 2
  /\ ocp.dae_[1] # ocp.dae_[2]
  /\ ocp.dae_ = <<readExpr(ocp, document_.DynamicEquations[2]),
                  readExpr(ocp, document_.DynamicEquations[1])>>

\* the document of the model x1' = x2, x2' = -x1
Oscillator ==
  StateDocument(<<SubOf(DerOf(StateName(1)), Identifier(StateName(2))),
                  AddOf(DerOf(StateName(2)), Identifier(StateName(1)))>>)

\* C20: on the model x1' = x2, x2' = -x1, makeExplicit called after sortBLT
\* returns normally and leaves two explicit differential equations for the
\* two states, no implicit and no algebraic equation.
C20_OscillatorMadeExplicit ==
  [][/\ PassCalled("makeExplicit")
     /\ document_ = Oscillator
     /\ passes = <<[op |-> "sortBLT", ok |-> TRUE]>>
     => /\ ReturnedNormally
        /\ Len(ocp'.ode_) = 2
        /\ {ocp'.xd_[i] : i \in 1..Len(ocp'.xd_)} = {StateName(1), StateName(2)}
        /\ ocp'.dae_ = <<>>
        /\ ocp'.alg_ = <<>>]_vars


(***************************************************************************)
(* The variable registry: addVariable and variable called on an object     *)
(***************************************************************************)
\* FlatOCPInternal::variable: the members after the call (the registry is
\* only searched) and the entry returned
variable(o, name) ==
  IF name \notin DOMAIN o.varmap_ THEN Throw(o, "No such variable") ELSE o

variableReturned(o, name) ==
  IF name \notin DOMAIN o.varmap_ THEN NoLocals.v ELSE o.varmap_[name]

\* names and variables the calls are made with; w is in no document
RegistryNames == {<<"p", 0>>, StateName(1), <<"w", 0>>}
RegistryVariables ==
  {[variability |-> "continuous", causality |-> "internal", nominal |-> 1, free |-> TRUE],
   [variability |-> "parameter", causality |-> "internal", nominal |-> 2, free |-> TRUE]}

\* addVariable and variable are public and may be called before or after parse
CanCallRegistry ==
  ocpPhase \in {"constructed", "parsed"} /\ Len(passes) < MaxPasses

AddVariable ==
  /\ CanCallRegistry
  /\ \E name \in RegistryNames : \E v \in RegistryVariables :
       CalledWith("addVariable", addVariable(ocp, name, v),
                  [NoLocals EXCEPT !.name = name, !.v = v])

Variable ==
  /\ CanCallRegistry
  /\ \E name \in RegistryNames :
       CalledWith("variable", variable(ocp, name),
                  [NoLocals EXCEPT !.name = name, !.v = variableReturned(ocp, name)])

\* The document declaring the single variable v of the given kind, without
\* equations.
RoleDocument(variability, causality, free) ==
  [ModelVariables |->
     <<[VariableNode(<<"v", 0>>, variability, causality) EXCEPT !.free = free]>>,
   BindingEquations |-> <<>>,
   DynamicEquations |-> <<>>,
   InitialEquations |-> <<>>,
   Optimization |-> <<>>]

RoleDocuments ==
  {RoleDocument(variability, causality, free) :
     variability \in {"constant", "parameter", "discrete", "continuous"},
     causality \in {"input", "output", "internal"},
     free \in BOOLEAN}

InitRegistry ==
  /\ \E doc \in {StateDocument(<<>>), Oscillator} \cup RoleDocuments :
       FlatOCPConstructed(doc)
  /\ Constructed([nin |-> NL_NUM_IN, nout |-> NL_NUM_OUT, nx |-> 0, np |-> 1, ng |-> 0])

NextRegistry ==
  \/ Parse
  \/ AddVariable
  \/ Variable

SpecRegistry == InitRegistry /\ [][NextRegistry]_vars

\* C21: addVariable(name, v) fails exactly when name is registered and then
\* leaves the registry as it was; otherwise the registry gains exactly the
\* entry name -> v.  variable(name) fails exactly when name is not
\* registered, otherwise returns the entry stored under name; it never
\* changes the registry.
C21_RegistryContract ==
  [][/\ PassCalled("addVariable")
        => /\ ~ReturnedNormally <=> locals'.name \in DOMAIN ocp.varmap_
           /\ ~ReturnedNormally => ocp' = ocp
           /\ ReturnedNormally
                => /\ DOMAIN ocp'.varmap_ = DOMAIN ocp.varmap_ \cup {locals'.name}
                   /\ ocp'.varmap_[locals'.name] = locals'.v
                   /\ \A n \in DOMAIN ocp.varmap_ : ocp'.varmap_[n] = ocp.varmap_[n]
                   /\ ocp' = [ocp EXCEPT !.varmap_ = ocp'.varmap_]
     /\ PassCalled("variable")
        => /\ ~ReturnedNormally <=> locals'.name \notin DOMAIN ocp.varmap_
           /\ ReturnedNormally => locals'.v = ocp.varmap_[locals'.name]
           /\ ocp' = ocp]_vars

\* After parse of the oscillator: w has been added, p has been refused, and
\* the lookup of w returns the variable that was added.
C21_Witness ==
  /\ ocpPhase = "parsed"
  /\ passes = <<[op |-> "addVariable", ok |-> TRUE],
                [op |-> "addVariable", ok |-> FALSE],
                [op |-> "variable", ok |-> TRUE]>>
  /\ locals.name = <<"w", 0>>
  /\ locals.v = ocp.varmap_[<<"w", 0>>]
  /\ locals.v.nominal = 2
  /\ DOMAIN ocp.varmap_ = {<<"p", 0>>, <<"u", 0>>, StateName(1), StateName(2), <<"w", 0>>}


(***************************************************************************)
(* Properties of the role classification (checked under SpecOcp)           *)
(***************************************************************************)
\* the variables of a list
Members(list) == {list[i] : i \in 1..Len(list)}

\* the variables that are the left side of a binding equation of the document
Bound ==
  {document_.BindingEquations[i].children[1].qn :
     i \in 1..Len(document_.BindingEquations)}

\* the variables of the role lists other than y_
OtherRoles(o) ==
  Members(o.x_) \cup Members(o.xd_) \cup Members(o.xa_)
  \cup Members(o.u_) \cup Members(o.p_)

\* C22: after the classification a variable is in y_ if and only if it is
\* the left side of a binding equation, and no variable of y_ is in x_,
\* xd_, xa_, u_ or p_.
C22_DependentIffBound ==
  ocpPhase = "parsed"
    => /\ \A n \in DOMAIN ocp.varmap_ : n \in Members(ocp.y_) <=> n \in Bound
       /\ Members(ocp.y_) \cap OtherRoles(ocp) = {}

\* C22, with the constants: after the classification a variable is in y_ if
\* and only if it is the left side of a binding equation or has variability
\* constant, and no variable of y_ is in x_, xd_, xa_, u_ or p_.
C22_DependentIffBoundOrConstant ==
  ocpPhase = "parsed"
    => /\ \A n \in DOMAIN ocp.varmap_ :
            n \in Members(ocp.y_)
              <=> n \in Bound \/ ocp.varmap_[n].variability = "constant"
       /\ Members(ocp.y_) \cap OtherRoles(ocp) = {}

\* y[1] is bound and y[2] is not: y_ holds y[1] and the constant k, and
\* y[2] is a state.
C22_Witness ==
  /\ ocpPhase = "parsed"
  /\ Bound = {YName(1)}
  /\ ocp.y_ = <<YName(1), <<"k", 0>>>>
  /\ YName(2) \in Members(ocp.x_)
  /\ ocp.p_ = <<<<"p", 0>>>>
  /\ ocp.u_ = <<<<"u", 0>>>>

\* how many of the role lists x_, xd_, xa_, u_, p_ hold the variable n
RolesOf(o, n) ==
  Cardinality({r \in {"x_", "xd_", "xa_", "u_", "p_"} : n \in Members(o[r])})

\* C23 (checked under SpecRegistry): when parse, and with it sortType,
\* returns normally, every registered variable that is not in y_ is in
\* exactly one of the role lists x_, xd_, xa_, u_, p_.
C23_EveryVariableHasARole ==
  [][ocpPhase = "constructed" /\ ocpPhase' = "parsed"
     => \A n \in DOMAIN ocp'.varmap_ \ Members(ocp'.y_) : RolesOf(ocp', n) = 1]_vars


(***************************************************************************)
(* Documents with an optimization block: a Mayer term, a Lagrange term and *)
(* up to two constraints                                                   *)
(***************************************************************************)
\* Expressions of the terms: the parameter p, the name z of no variable, and
\* a node of a kind readExpr does not know.
OptExprs ==
  {Identifier(<<"p", 0>>), Identifier(<<"z", 0>>), Node("exp:Unknown", NoName, 0, <<>>)}

\* the three kinds addConstraints knows and one it does not
ConstraintKinds ==
  {"opt:ConstraintLeq", "opt:ConstraintGeq", "opt:ConstraintEq", "opt:ConstraintNeq"}

\* the constraints "ex kind 1" with ex = p or ex = z
ConstraintNodes ==
  {Node(kind, NoName, 0, <<ex, IntegerLiteral(1)>>) :
     kind \in ConstraintKinds, ex \in {Identifier(<<"p", 0>>), Identifier(<<"z", 0>>)}}

OptimizationDocument(mayer, lagrange, constrs) ==
  [ModelVariables |->
     <<VariableNode(<<"p", 0>>, "parameter", "internal"),
       VariableNode(<<"u", 0>>, "continuous", "input")>>,
   BindingEquations |-> <<>>,
   DynamicEquations |-> <<>>,
   InitialEquations |-> <<>>,
   Optimization |->
     <<Node("opt:Optimization", NoName, 0,
            <<Node("opt:IntervalStartTime", NoName, 0, <<>>),
              Node("opt:IntervalFinalTime", NoName, 1, <<>>),
              Node("opt:ObjectiveFunction", NoName, 0, <<mayer>>),
              Node("opt:IntegrandObjectiveFunction", NoName, 0, <<lagrange>>),
              Node("opt:Constraints", NoName, 0, constrs)>>)>>]

OptimizationDocuments ==
  {OptimizationDocument(mayer, lagrange, constrs) :
     mayer \in OptExprs, lagrange \in OptExprs,
     constrs \in UNION {[1..n -> ConstraintNodes] : n \in 0..2}}

InitOptimization ==
  /\ \E doc \in OptimizationDocuments : FlatOCPConstructed(doc)
  /\ Constructed([nin |-> NL_NUM_IN, nout |-> NL_NUM_OUT, nx |-> 0, np |-> 1, ng |-> 0])

SpecOptimization == InitOptimization /\ [][NextOcp]_vars

\* the children of the optimization block of the document
OptChild(k) == document_.Optimization[1].children[k].children

\* reading the expression raises an error
Erroneous(o, node) == readExpr(o, node).op = "throw"

\* parse has been called
Parsed == ocpPhase = "constructed" /\ ocpPhase' # "constructed"

\* C24 (checked under SpecOptimization): an error raised while parse reads
\* the Mayer term, the Lagrange term or a constraint propagates: parse does
\* not return normally, and after an error in the Mayer term no Lagrange
\* term and no constraint is appended.
C24_ErrorsAbortParse ==
  [][Parsed
     => /\ (\/ Erroneous(ocp', OptChild(3)[1])
            \/ Erroneous(ocp', OptChild(4)[1])
            \/ \E i \in 1..Len(OptChild(5)) :
                 \/ Erroneous(ocp', OptChild(5)[i].children[1])
                 \/ OptChild(5)[i].name = "opt:ConstraintNeq")
           => ocpPhase' = "parse_failed"
        /\ Erroneous(ocp', OptChild(3)[1])
           => ocp'.lterm_ = <<>> /\ ocp'.path_ = <<>>]_vars

\* the constraint cannot be added: unknown kind, or an operand raises an error
BadConstraint(o, c) ==
  \/ c.name \notin {"opt:ConstraintLeq", "opt:ConstraintGeq", "opt:ConstraintEq"}
  \/ Erroneous(o, c.children[1])
  \/ Erroneous(o, c.children[2])

\* the bounds the claim gives for a constraint of the kind
BoundsOf(kind) ==
  CASE kind = "opt:ConstraintLeq" -> <<NInf, Fin(0)>>
    [] kind = "opt:ConstraintGeq" -> <<Fin(0), PInf>>
    [] OTHER -> <<Fin(0), Fin(0)>>

\* C29 (checked under SpecOptimization): in every state path_, path_min_
\* and path_max_ have the same length and path_min_[i] <= path_max_[i];
\* parse appends for each constraint up to the first one that fails the
\* triple (expr - rhs, -inf, 0) for Leq, (expr - rhs, 0, +inf) for Geq and
\* (expr - rhs, 0, 0) for Eq, and nothing for the constraint that fails.
C29_PathBounds ==
  /\ [](/\ Len(ocp.path_min_) = Len(ocp.path_)
        /\ Len(ocp.path_max_) = Len(ocp.path_)
        /\ \A i \in 1..Len(ocp.path_) : DLe(ocp.path_min_[i], ocp.path_max_[i]))
  /\ [][Parsed
        => LET cs == OptChild(5)
               good == {i \in 0..Len(cs) : \A j \in 1..i : ~BadConstraint(ocp', cs[j])}
           IN /\ Len(ocp'.path_) = Cardinality(good) - 1
              /\ \A i \in 1..Len(ocp'.path_) :
                   /\ ocp'.path_[i] = Binary("sub", readExpr(ocp', cs[i].children[1]),
                                                    readExpr(ocp', cs[i].children[2]))
                   /\ <<ocp'.path_min_[i], ocp'.path_max_[i]>> = BoundsOf(cs[i].name)
              /\ Len(ocp'.path_) < Len(cs) => ocpPhase' = "parse_failed"]_vars

\* A Geq constraint has been appended and the next constraint, of an
\* unknown kind, has made parse fail.
C29_Witness ==
  /\ ocpPhase = "parse_failed"
  /\ Len(document_.Optimization[1].children[5].children) = 2
  /\ document_.Optimization[1].children[5].children[1].name = "opt:ConstraintGeq"
  /\ document_.Optimization[1].children[5].children[2].name = "opt:ConstraintNeq"
  /\ ocp.path_ = <<Binary("sub", Sym(<<"p", 0>>), Num(1))>>
  /\ ocp.path_min_ = <<Fin(0)>>
  /\ ocp.path_max_ = <<PInf>>

\* C27 (checked under SpecPasses): scaled_equations_ implies
\* scaled_variables_ in every state; both flags are false after construction
\* and never go from true back to false; a call of scaleVariables made while
\* scaled_variables_ is true fails (assertion) and changes no member.
C27_ScalingFlags ==
  /\ [](ocp.scaled_equations_ => ocp.scaled_variables_)
  /\ [](ocpPhase = "constructed" => ~ocp.scaled_variables_ /\ ~ocp.scaled_equations_)
  /\ [][/\ ocp.scaled_variables_ => ocp'.scaled_variables_
        /\ ocp.scaled_equations_ => ocp'.scaled_equations_]_vars
  /\ [][PassCalled("scaleVariables") /\ ocp.scaled_variables_
        => ~ReturnedNormally /\ ocp' = ocp]_vars

\* scaleVariables has been called twice on a model with two implicit
\* equations: the second call has failed.
C27_Witness ==
  /\ passes = <<[op |-> "scaleVariables", ok |-> TRUE],
                [op |-> "scaleVariables", ok |-> FALSE]>>
  /\ ocp.scaled_variables_
  /\ ~ocp.scaled_equations_
  /\ Len(ocp.dae_) = 2

(***************************************************************************)
(* FlatOCPInternal::init and its options                                   *)
(***************************************************************************)
\* the options of the constructor that name a pass of init
OcpOptionNames == {"scale_variables", "eliminate_dependent", "scale_equations"}

\* the next call of a sequence: an exception of an earlier call ends it
Then(o, pass(_)) == IF Failed(o) THEN o ELSE pass(o)

\* FlatOCPInternal::init up to the call of scaleEquations: the option
\* "verbose" is the only one read.
beforeScaleEquations(o, doc) ==
  Then(Then(Then(parse(o, doc), scaleVariables), eliminateInterdependencies),
       eliminateDependent)

\* the call of scaleEquations that ends init
lastOfInit(o, J0) == IF Failed(o) THEN o ELSE scaleEquations(o, J0)

\* FlatOCPInternal::init, J0 being the Jacobian scaleEquations evaluates
init(o, doc, J0) == lastOfInit(beforeScaleEquations(o, doc), J0)

\* the Jacobians scaleEquations may evaluate in init: none if an earlier
\* pass has thrown
initJacobians(o) == IF Failed(o) THEN {<<>>} ELSE Jacobians(o)

\* Right sides of the binding equation of y[1]: the state, the state plus
\* the parameter, the parameter, a number.
InitBindingExprs ==
  {Identifier(StateName(1)),
   AddOf(Identifier(StateName(1)), Identifier(<<"p", 0>>)),
   Identifier(<<"p", 0>>),
   IntegerLiteral(1)}

\* Residuals of the dynamic equations; z is not a variable of the model.
InitEquationExprs ==
  {SubOf(DerOf(StateName(1)), Identifier(YName(1))),
   SubOf(DerOf(StateName(1)), Identifier(StateName(1))),
   AddOf(Identifier(YName(1)), Identifier(StateName(1))),
   Identifier(<<"z", 0>>)}

\* The document with the parameter p, the state x[1] of nominal value 2 and
\* the variable y[1], bound by the binding equations rhs (none or one), with
\* the residual eq in every dynamic equation, the Mayer term y[1], the
\* Lagrange term x[1] and the constraint y[1] <= x[1].
InitDocument(rhs, eq) ==
  [ModelVariables |->
     <<VariableNode(<<"p", 0>>, "parameter", "internal"),
       [VariableNode(StateName(1), "continuous", "internal") EXCEPT !.nominal = 2],
       VariableNode(YName(1), "continuous", "internal")>>,
   BindingEquations |->
     [i \in 1..Len(rhs) |-> Node("equ:BindingEquation", NoName, 0,
                                 <<Identifier(YName(i)), rhs[i]>>)],
   DynamicEquations |-> [i \in 1..(2 - Len(rhs)) |-> eq],
   InitialEquations |-> <<>>,
   Optimization |->
     <<Node("opt:Optimization", NoName, 0,
            <<Node("opt:IntervalStartTime", NoName, 0, <<>>),
              Node("opt:IntervalFinalTime", NoName, 1, <<>>),
              Node("opt:ObjectiveFunction", NoName, 0, <<Identifier(YName(1))>>),
              Node("opt:IntegrandObjectiveFunction", NoName, 0,
                   <<Identifier(StateName(1))>>),
              Node("opt:Constraints", NoName, 0,
                   <<Node("opt:ConstraintLeq", NoName, 0,
                          <<Identifier(YName(1)), Identifier(StateName(1))>>)>>)>>)>>]

InitDocuments ==
  {InitDocument(rhs, eq) :
     rhs \in UNION {[1..n -> InitBindingExprs] : n \in 0..1},
     eq \in InitEquationExprs}

\* setOption on a constructed object, for an option the constructor declares
SetOcpOption ==
  /\ ocpPhase = "constructed"
  /\ \E name \in OcpOptionNames, b \in BOOLEAN :
       ocp' = [ocp EXCEPT !.dictionary_[name] = b]
  /\ UNCHANGED <<document_, ocpPhase, passes, locals, nlpVars>>

\* The call of init on a constructed object.
InitReturned(r, J0) ==
  /\ ocp' = r
  /\ ocpPhase' = IF Failed(r) THEN "init_failed" ELSE "initialized"
  /\ locals' = IF r.scaled_equations_
               THEN [NoLocals EXCEPT !.evaluated = TRUE, !.J0 = J0]
               ELSE NoLocals
  /\ UNCHANGED <<document_, passes, nlpVars>>

CallInit ==
  /\ ocpPhase = "constructed"
  /\ \E J0 \in initJacobians(beforeScaleEquations(ocp, document_)) :
       InitReturned(init(ocp, document_, J0), J0)

InitInit ==
  /\ \E doc \in InitDocuments : FlatOCPConstructed(doc)
  /\ Constructed([nin |-> NL_NUM_IN, nout |-> NL_NUM_OUT, nx |-> 0, np |-> 1, ng |-> 0])

NextInit ==
  \/ SetOcpOption
  \/ CallInit

SpecInit == InitInit /\ [][NextInit]_vars

(***************************************************************************)
(* Properties of init (checked under SpecInit)                             *)
(***************************************************************************)
\* the step is a call of init
InitCalled == ocpPhase = "constructed" /\ ocpPhase' \in {"initialized", "init_failed"}

\* the members as parse alone leaves them
AsParsed == parse(ocp, document_)

\* C25: init honours its options: with eliminate_dependent = false the
\* dependent variables referenced in the equation sets stay referenced, with
\* scale_equations = false the implicit equations are not scaled, with
\* scale_variables = false (the default) the variables are not scaled; with
\* every option at its default, init on a document that parse accepts fails
\* at no assertion.
C25_InitHonoursOptions ==
  [][InitCalled
     => /\ ~ocp.dictionary_.eliminate_dependent /\ ocpPhase' = "initialized"
           => \A s \in 1..Len(EquationSets(ocp')) :
                Referenced(EquationSets(AsParsed)[s]) \cap Dependent(AsParsed)
                  \subseteq Referenced(EquationSets(ocp')[s])
        /\ ~ocp.dictionary_.scale_equations
           => ~ocp'.scaled_equations_ /\ ocp'.dae_ = AsParsed.dae_
        /\ ~ocp.dictionary_.scale_variables
           => ~ocp'.scaled_variables_
        /\ ocp.dictionary_ = NoMembers.dictionary_ /\ ~Failed(AsParsed)
           => ocp'.thrown # "assertion failed"]_vars

\* the variable or derivative symbol times a constant, as scaleVariables
\* writes a scaled reference
IsScaledRef(e) ==
  e.op = "mul" /\ e.args[1].op \in {"var", "der"} /\ e.args[2].op = "const"

\* the variables an expression references in nominal-scaled form
RECURSIVE ScaledRefs(_)
ScaledRefs(e) ==
  IF IsScaledRef(e) THEN {e.args[1].name}
  ELSE UNION {ScaledRefs(e.args[i]) : i \in 1..Len(e.args)}

\* the variables an expression references by the bare symbol
RECURSIVE BareRefs(_)
BareRefs(e) ==
  IF IsScaledRef(e) THEN {}
  ELSE IF e.op \in {"var", "der"} THEN {e.name}
  ELSE UNION {BareRefs(e.args[i]) : i \in 1..Len(e.args)}

\* the variables scaleVariables scales
ScaledVariables(o) ==
  UNION {Members(list) : list \in {o.x_, o.xd_, o.xa_, o.p_, o.u_}}

\* the equation sets and terms scaleVariables rewrites
ScaledSets(o) == <<o.dae_, o.initial_, o.path_, o.mterm_, o.lterm_>>

\* C28: after init has returned, the binding expressions eliminateDependent
\* has substituted are written in nominal-scaled variables, and no expression
\* of dae, initial, path, Mayer and Lagrange terms references one variable
\* both in nominal-scaled form and by its bare symbol.
C28_ScalingUniform ==
  ocpPhase = "initialized"
  => /\ \A i \in 1..Len(ocp.dep_) :
          BareRefs(ocp.dep_[i]) \cap ScaledVariables(ocp) = {}
     /\ \A s \in 1..Len(ScaledSets(ocp)) : \A i \in 1..Len(ScaledSets(ocp)[s]) :
          ScaledRefs(ScaledSets(ocp)[s][i]) \cap BareRefs(ScaledSets(ocp)[s][i]) = {}

(***************************************************************************)
(* Failed accesses to the derivative accessors (checked under SpecDeriv)   *)
(***************************************************************************)
\* C26: an access whose build or arity validation fails leaves the slot of
\* its kind unset and changes no slot that was filled; the next access to
\* the same kind runs the recipe or the validation again, and what it
\* returns is the function it caches.
C26_FailedAccessCachesNothing ==
  /\ [][\A k \in Kinds : Accessed(k) /\ lastAccess'.status = "error" =>
          /\ isNull(Slot(k)')
          /\ \A j \in Kinds : ~isNull(Slot(j)) => Slot(j)' = Slot(j)]_vars
  /\ [][\A k \in Kinds :
          Accessed(k) /\ lastAccess.kind = k /\ lastAccess.status = "error" =>
            /\ recipeRuns'[k] > recipeRuns[k] \/ validations'[k] > validations[k]
            /\ lastAccess'.status = "ok" =>
                 ~isNull(lastAccess'.value) /\ Slot(k)' = lastAccess'.value]_vars

\* The recipe of gradF has failed once and has then been run again: the
\* second access has returned the function it cached.
C26_Witness ==
  /\ lastAccess.kind = "gradF" /\ lastAccess.status = "ok"
  /\ recipeRuns["gradF"] = 2 /\ validations["gradF"] = 1 /\ buildCount["gradF"] = 1
  /\ gradF_ = lastAccess.value /\ ~isNull(gradF_)

====
